---- MODULE Spec2Model ----
\* Storefront (Shopify) <-> backend (Zoho Inventory) synchronisation bridge.
\* The model follows the handlers of src/api: every vendor call (an await on
\* zohoFetch / shopifyFetch) is one step whose outcome the environment chooses.
EXTENDS Integers, Sequences, FiniteSets

\* ------------------------------------------------------------------ bounds
\* Longest line_items list of a storefront order.
MaxLines == 2
\* Deliveries of one storefront order by a sender that redelivers.
MaxDeliveries == 2
\* Longest search result of a single SKU lookup.
MaxResults == 3
\* Backend requests one caller makes through zohoFetch.
MaxFetches == 3
\* Invocations that run at the same time.
MaxCallers == 2

\* ------------------------------------------------------------- JS values
\* A string is a sequence of characters; "" (the empty sequence) is falsy.
\* A missing string field is modelled as "" wherever the code only tests
\* truthiness (!x, x || y).
Empty == <<>>
Truthy(s) == s # Empty
\* a || b on strings
Or(a, b) == IF Truthy(a) THEN a ELSE b

\* Loosely typed values (numbers, strings, undefined/null).  t is the typeof
\* the value; n is the number it holds, or for a string the number
\* Number(value) yields; nan marks NaN and the strings that are no number;
\* form tells the texts of one number apart: "10" is plain, "10.00" is fixed2,
\* "" is empty (Number("") is 0), any other text is text.
JsValue(t, n, nan, form) == [t |-> t, n |-> n, nan |-> nan, form |-> form]
Num(n) == JsValue("number", n, FALSE, "plain")
NumStr(n) == JsValue("string", n, FALSE, "plain")
Fixed2Str(n) == JsValue("string", n, FALSE, "fixed2")
EmptyStr == JsValue("string", 0, FALSE, "empty")
TextStr == JsValue("string", 0, TRUE, "text")
Undefined == JsValue("undefined", 0, TRUE, "plain")
False == JsValue("boolean", 0, TRUE, "plain")
\* value == null
IsNullish(v) == v.t = "undefined"
\* a ?? b
Coalesce(a, b) == IF IsNullish(a) THEN b ELSE a
\* String(value) of a number or a string
String(v) == IF v.t = "number" THEN JsValue("string", v.n, v.nan, "plain") ELSE v

\* Array.prototype.find: the least of the indices that satisfy the test, 0
\* when none does.
FirstIndex(hits) ==
  IF hits = {} THEN 0 ELSE CHOOSE k \in hits : \A j \in hits : k <= j

\* t is a prefix of s
IsPrefix(t, s) == Len(t) <= Len(s) /\ SubSeq(s, 1, Len(t)) = t

\* All sequences over S of length at most n.
SeqUpTo(S, n) == UNION {[1..k -> S] : k \in 0..n}

\* ------------------------------------------------------------ HMAC model
\* HMAC-SHA256 is a keyed function of the body: two digests are equal exactly
\* when key and body are.  A digest is 32 bytes.
Secrets == {<<"s", "1">>, <<"s", "2">>}
TheSecret == <<"s", "1">>
Hmac(key, body) == [len |-> 32, key |-> key, body |-> body, form |-> "raw"]

\* A header value.  enc says how the sender wrote the digest:
\*   "absent"    the header is not there (undefined)
\*   "empty"     the header is the empty string
\*   "base64"    canonical base64 of the digest
\*   "base64ws"  the same base64 text followed by white space
\*   "hex"/"HEX" lower / upper case hexadecimal of the digest
\*   "junk"      a short text that is no digest
HeaderPresent(h) == h.enc \notin {"absent", "empty"}
\* Buffer.from(text, "base64"): white space is ignored; the 64 hexadecimal
\* characters are themselves base64 characters and decode to 48 bytes.
Base64Decode(h) ==
  CASE h.enc \in {"base64", "base64ws"} -> h.mac
    [] h.enc \in {"hex", "HEX"} ->
         [len |-> 48, key |-> h.mac.key, body |-> h.mac.body, form |-> h.enc]
    [] OTHER -> [len |-> 3, key |-> Empty, body |-> h.mac.body, form |-> "junk"]
\* digest("base64") / digest("hex") of a computed digest
DigestBase64(mac) == [enc |-> "base64", mac |-> mac]
DigestHex(mac) == [enc |-> "hex", mac |-> mac]
\* String.prototype.trim / toLowerCase on a header text
Trim(h) == IF h.enc = "base64ws" THEN [h EXCEPT !.enc = "base64"] ELSE h
ToLowerCase(h) == IF h.enc = "HEX" THEN [h EXCEPT !.enc = "hex"] ELSE h
\* crypto.timingSafeEqual on two buffers of equal length
timingSafeEqual(a, b) == a = b

\* ------------------------------------------------------- storefront order
\* SKUs are texts over a two-letter alphabet; the backend's search_text matches
\* every item whose SKU starts with the text, so a search for A also returns AX.
SkuA == <<"A">>
SkuB == <<"B">>
SkuAX == <<"A", "X">>
Email1 == <<"e", "1">>
Email2 == <<"e", "2">>

\* An order line: sku ("" when missing) and a loosely typed quantity.
LineChoices ==
  { [sku |-> SkuA, quantity |-> Num(2)],
    [sku |-> SkuB, quantity |-> Num(1)],
    [sku |-> Empty, quantity |-> Num(1)],
    [sku |-> SkuA, quantity |-> NumStr(3)] }

OrderIds == {101}
\* email is order.email, custEmail is order.customer.email.
Orders ==
  { [id |-> id, email |-> e[1], custEmail |-> e[2], lines |-> ls] :
      id \in OrderIds,
      e \in {<<Email1, Empty>>, <<Empty, Email1>>, <<Empty, Empty>>},
      ls \in SeqUpTo(LineChoices, MaxLines) }
NoOrder == [id |-> 0, email |-> Empty, custEmail |-> Empty, lines |-> <<>>]

\* The bytes of a request body: the JSON text of an order, or a text that is
\* not JSON.  OtherBytes is a body other than the one delivered.
JsonText(order) == [text |-> "json", order |-> order]
GarbageText == [text |-> "garbage", order |-> NoOrder]
OtherBytes == [text |-> "json", order |-> NoOrder]
\* JSON.stringify of a parsed body
Stringify(order) == JsonText(order)

\* What a sender can put in a signature header for a body with bytes b.
HeadersFor(b) ==
  { [enc |-> "absent", mac |-> Hmac(Empty, b)],
    [enc |-> "junk", mac |-> Hmac(Empty, b)] }
  \cup { [enc |-> e, mac |-> Hmac(TheSecret, b)] : e \in {"base64", "base64ws"} }
  \cup { [enc |-> "base64", mac |-> Hmac(<<"s", "2">>, b)],
         [enc |-> "base64", mac |-> Hmac(TheSecret, OtherBytes)] }

\* A request to the order-created route.  body is the parsed object
\* (bodyIsString FALSE) or the text received (bodyIsString TRUE); rawBody is
\* the bytes the framework kept, rawBodyKept says whether it kept them.
OrderRequest(h, order, isString, text) ==
  [ hmac |-> h, bodyIsString |-> isString, body |-> text, order |-> order,
    rawBodyKept |-> TRUE, rawBody |-> text ]
OrderRequests ==
  UNION { { OrderRequest(h, o, s, JsonText(o)) :
              h \in HeadersFor(JsonText(o)), s \in BOOLEAN } : o \in Orders }
  \cup { OrderRequest(h, NoOrder, TRUE, GarbageText) : h \in HeadersFor(GarbageText) }

\* ------------------------------------------------------ backend catalog
ZohoItem(id, sku, rate, avail) ==
  [ item_id |-> id, sku |-> sku, rate |-> rate, available_stock |-> avail,
    actual_available_stock |-> Undefined, stock_on_hand |-> Undefined ]
ItemA == ZohoItem(1, SkuA, Num(10), Num(5))
ItemAX == ZohoItem(2, SkuAX, Num(12), Num(7))
ItemB == ZohoItem(3, SkuB, Num(12), Num(7))
\* Catalogs the order push runs against: A behind a near match, only the near
\* match, and both SKUs of the orders.
OrderCatalogs == { <<ItemAX, ItemA>>, <<ItemAX>>, <<ItemA, ItemB>> }

VARIABLES
  IS_DEVELOPMENT,   \* NODE_ENV === "development"
  SHOPIFY_SECRET,   \* SHOPIFY_WEBHOOK_SHARED_SECRET, "" when not set
  SECRET,           \* ZOHO_WEBHOOK_SECRET, "" when not set
  ZOHO_ENV,         \* the six ZOHO_* values of api/zoho.ts, "" when not set
  zohoItems,        \* backend catalog, in the order the backend lists it
  zohoPages,        \* the backend's answers to items?page=n, n = 1, 2, ...
  zohoContacts,     \* backend contacts, a sequence of [contact_id, email]
  zohoSalesOrders,  \* backend sales orders, in creation order
  variants,         \* storefront variants
  shop,             \* storefront shop record (primary_location_id, 0 when none)
  FALLBACK_LOCATION_ID,  \* DEFAULT_LOCATION_ID, "" when not set
  handler,          \* the route the request is dispatched to: order, zoho, sync
  req,              \* the request being served
  pc,               \* the await the handler is suspended at
  status,           \* HTTP status replied, 0 before the reply
  calls,            \* vendor calls issued while serving the request
  local,            \* the handler's local variables
  deliveries        \* requests received so far

cfgVars == <<IS_DEVELOPMENT, SHOPIFY_SECRET, SECRET, ZOHO_ENV, FALLBACK_LOCATION_ID>>
shopVars == <<variants, shop>>
zohoVars == <<zohoItems, zohoPages, zohoContacts, zohoSalesOrders>>
vars ==
  << IS_DEVELOPMENT, SHOPIFY_SECRET, SECRET, ZOHO_ENV, zohoItems, zohoPages, zohoContacts,
     zohoSalesOrders, variants, shop, FALLBACK_LOCATION_ID, handler, req, pc,
     status, calls, local, deliveries >>

\* ----------------------------------------------------------- vendor calls
\* zohoFetch: a token exchange, then the API request.  Either may fail.
ZohoOutcomes == {"ok", "token_error", "api_error"}
Call(svc, op, ok) == [svc |-> svc, op |-> op, ok |-> ok]
\* The environment with every ZOHO_* value set.
ZohoConfigured ==
  [ ZOHO_BASE_URL |-> <<"b">>, ZOHO_ACCOUNTS_URL |-> <<"a">>,
    ZOHO_CLIENT_ID |-> <<"c">>, ZOHO_CLIENT_SECRET |-> <<"k">>,
    ZOHO_REFRESH_TOKEN |-> <<"r">>, ZOHO_ORG_ID |-> <<"o">> ]
\* requireEnv(value, name) throws when the value is undefined or "".
requireEnvThrows(value) == ~Truthy(value)
\* getZohoAccessToken throws before its fetch when one of its four values is
\* not set.
tokenEnvThrows ==
  \/ requireEnvThrows(ZOHO_ENV.ZOHO_ACCOUNTS_URL)
  \/ requireEnvThrows(ZOHO_ENV.ZOHO_CLIENT_ID)
  \/ requireEnvThrows(ZOHO_ENV.ZOHO_CLIENT_SECRET)
  \/ requireEnvThrows(ZOHO_ENV.ZOHO_REFRESH_TOKEN)
\* zohoFetch throws after the token exchange and before its own fetch when
\* the base URL or the organisation id is not set.
apiEnvThrows ==
  \/ requireEnvThrows(ZOHO_ENV.ZOHO_BASE_URL)
  \/ requireEnvThrows(ZOHO_ENV.ZOHO_ORG_ID)
\* Variant that keeps the access token of an earlier exchange.
zohoFetch_CachedToken(op, outcome) ==
  IF \E k \in DOMAIN calls : calls[k].svc = "zoho-accounts" /\ calls[k].ok
    THEN << Call("zoho", op, outcome = "ok") >>
  ELSE IF outcome = "token_error" THEN << Call("zoho-accounts", op, FALSE) >>
  ELSE << Call("zoho-accounts", op, TRUE), Call("zoho", op, outcome = "ok") >>
\* The calls one zohoFetch(op) issues: the token exchange (for op), then the
\* request itself unless the exchange failed or a value it needs is not set.
zohoFetch(op, outcome) ==
  IF tokenEnvThrows THEN <<>>
  ELSE IF outcome = "token_error" THEN << Call("zoho-accounts", op, FALSE) >>
  ELSE IF apiEnvThrows THEN << Call("zoho-accounts", op, TRUE) >>
  ELSE << Call("zoho-accounts", op, TRUE), Call("zoho", op, outcome = "ok") >>
\* Mutant: the status of the API response is not looked at.
zohoFetchThrows_TokenOnly(outcome) == outcome = "token_error"
\* Variant that never throws.
zohoFetchThrows_Never(outcome) == FALSE
\* requireEnv throws, or if (!resp.ok) throw after the token exchange and
\* after the request.
zohoFetchThrows(outcome) == tokenEnvThrows \/ apiEnvThrows \/ outcome # "ok"

\* data.items of items?search_text=text
ZohoSearch(text) == SelectSeq(zohoItems, LAMBDA it : IsPrefix(text, it.sku))
\* Mutant: falls back to the first search result, as the storefront side does.
\* Variant that takes the head of the search result.
findZohoItemBySKU_Head(sku) ==
  IF Len(ZohoSearch(sku)) > 0 THEN << ZohoSearch(sku)[1] >> ELSE <<>>
findZohoItemBySKU_FirstResult(sku) ==
  LET items == ZohoSearch(sku)
      k == FirstIndex({j \in DOMAIN items : items[j].sku = sku})
  IN IF k # 0 THEN << items[k] >>
     ELSE IF Len(items) > 0 THEN << items[1] >> ELSE <<>>
\* items.find(i => i.sku === sku) || null; null is the empty sequence.
findZohoItemBySKU(sku) ==
  LET items == ZohoSearch(sku)
      k == FirstIndex({j \in DOMAIN items : items[j].sku = sku})
  IN IF k = 0 THEN <<>> ELSE << items[k] >>

\* search.contacts of contacts?email=email
ContactSearchResult(email) == SelectSeq(zohoContacts, LAMBDA c : c.email = email)

\* ------------------------------------------------------ storefront calls
\* shopifyFetch: one request, which may fail (network error or non-2xx).
ShopifyOutcomes == {"ok", "error"}
shopifyFetch(op, outcome) == << Call("shopify", op, outcome = "ok") >>
shopifyFetchThrows_Never(outcome) == FALSE
shopifyFetchThrows(outcome) == outcome # "ok"

\* A storefront variant; levels are its inventory levels, one per location.
Variant(id, sku, price, levels) ==
  [ id |-> id, sku |-> sku, price |-> price, inventory_item_id |-> 100 + id,
    levels |-> levels ]
Level(loc, available) == [location_id |-> loc, available |-> available]

\* data.variants of variants.json?sku=text: the storefront returns every
\* variant whose SKU starts with the text.
ShopifySearch(text) == SelectSeq(variants, LAMBDA v : IsPrefix(text, v.sku))
\* Variant without the fallback to the head of the search result.
findVariantBySKU_ExactOnly(sku) ==
  LET found == ShopifySearch(sku)
      k == FirstIndex({j \in DOMAIN found : found[j].sku = sku})
  IN IF k # 0 THEN << found[k] >> ELSE <<>>
\* exact || variants[0] || null; null is the empty sequence.
findVariantBySKU(sku) ==
  LET found == ShopifySearch(sku)
      k == FirstIndex({j \in DOMAIN found : found[j].sku = sku})
  IN IF k # 0 THEN << found[k] >>
     ELSE IF Len(found) > 0 THEN << found[1] >> ELSE <<>>

\* The storefront after PUT variants/{id}.json with price String(price).
updateVariantPrice(variantId, price) ==
  [ k \in DOMAIN variants |->
      IF variants[k].id = variantId
        THEN [variants[k] EXCEPT !.price = String(price)]
        ELSE variants[k] ]

\* Variant that adds the quantity to the level already there.
SetLevel_Add(levels, loc, available) ==
  IF \E k \in DOMAIN levels : levels[k].location_id = loc
    THEN [ k \in DOMAIN levels |->
             IF levels[k].location_id = loc
               THEN Level(loc, Num(levels[k].available.n + available.n))
               ELSE levels[k] ]
    ELSE Append(levels, Level(loc, available))
\* The storefront after POST inventory_levels/set.json.
SetLevel(levels, loc, available) ==
  IF \E k \in DOMAIN levels : levels[k].location_id = loc
    THEN [ k \in DOMAIN levels |->
             IF levels[k].location_id = loc
               THEN Level(loc, available) ELSE levels[k] ]
    ELSE Append(levels, Level(loc, available))
InventorySet(inventoryItemId, loc, available) ==
  [ k \in DOMAIN variants |->
      IF variants[k].inventory_item_id = inventoryItemId
        THEN [variants[k] EXCEPT !.levels = SetLevel(@, loc, available)]
        ELSE variants[k] ]

\* Number(FALLBACK_LOCATION_ID)
FallbackLocation == IF FALLBACK_LOCATION_ID = <<"9">> THEN 9 ELSE 0
\* First inventory level's location of an inventory item, 0 when it has none.
FirstLevelLocation(inventoryItemId) ==
  LET k == FirstIndex({j \in DOMAIN variants :
                         variants[j].inventory_item_id = inventoryItemId})
  IN IF k = 0 \/ variants[k].levels = <<>> THEN 0
     ELSE variants[k].levels[1].location_id

\* getPrimaryLocationId: [calls, threw, id]
getPrimaryLocationId(oShop) ==
  LET cs == shopifyFetch("shop", oShop)
  IN IF shopifyFetchThrows(oShop) THEN [calls |-> cs, threw |-> TRUE, id |-> 0]
     ELSE IF shop.primary_location_id # 0
       THEN [calls |-> cs, threw |-> FALSE, id |-> shop.primary_location_id]
     ELSE IF Truthy(FALLBACK_LOCATION_ID)
       THEN [calls |-> cs, threw |-> FALSE, id |-> FallbackLocation]
     ELSE [calls |-> cs, threw |-> TRUE, id |-> 0]

\* Variant without the catch: the primary location or the exception.
getLocationIdForItem_NoCatch(inventoryItemId, oShop, oLevels) ==
  getPrimaryLocationId(oShop)
\* getLocationIdForItem: the catch falls back to the item's first level.
getLocationIdForItem(inventoryItemId, oShop, oLevels) ==
  LET primary == getPrimaryLocationId(oShop)
      cs == primary.calls \o shopifyFetch("inventory_levels", oLevels)
      loc == FirstLevelLocation(inventoryItemId)
  IN IF ~primary.threw THEN primary
     ELSE IF shopifyFetchThrows(oLevels)
       THEN [calls |-> cs, threw |-> TRUE, id |-> 0]
     ELSE IF loc # 0 THEN [calls |-> cs, threw |-> FALSE, id |-> loc]
     ELSE IF Truthy(FALLBACK_LOCATION_ID)
       THEN [calls |-> cs, threw |-> FALSE, id |-> FallbackLocation]
     ELSE [calls |-> cs, threw |-> TRUE, id |-> 0]

\* setInventoryLevel(inventoryItemId, available) without a locationId:
\* [calls, threw, variants], variants being the storefront afterwards.
setInventoryLevel(inventoryItemId, available, oShop, oLevels, oSet) ==
  LET location == getLocationIdForItem(inventoryItemId, oShop, oLevels)
      cs == location.calls \o shopifyFetch("inventory_levels_set", oSet)
  IN IF location.threw
       THEN [calls |-> location.calls, threw |-> TRUE, variants |-> variants]
     ELSE IF shopifyFetchThrows(oSet)
       THEN [calls |-> cs, threw |-> TRUE, variants |-> variants]
     ELSE [ calls |-> cs, threw |-> FALSE,
            variants |-> InventorySet(inventoryItemId, location.id, available) ]

\* ------------------------------------------- storefront order-created route
orderRawBody(request) ==
  IF request.rawBodyKept THEN request.rawBody
  ELSE IF request.bodyIsString THEN request.body
  ELSE Stringify(request.order)

\* Mutant: only the lengths of the two buffers are compared.
verifyHmac_LengthOnly(hmacHeader, rawBody) ==
  IF ~HeaderPresent(hmacHeader) \/ ~Truthy(SHOPIFY_SECRET) THEN FALSE
  ELSE LET computed == DigestBase64(Hmac(SHOPIFY_SECRET, rawBody))
       IN Base64Decode(hmacHeader).len = Base64Decode(computed).len
verifyHmac(hmacHeader, rawBody) ==
  IF ~HeaderPresent(hmacHeader) \/ ~Truthy(SHOPIFY_SECRET) THEN FALSE
  ELSE LET computed == DigestBase64(Hmac(SHOPIFY_SECRET, rawBody))
           a == Base64Decode(hmacHeader)
           b == Base64Decode(computed)
       IN IF a.len # b.len THEN FALSE ELSE timingSafeEqual(a, b)

\* Mutant: the development bypass is missing.
hmacValid_AlwaysVerify(request) ==
  verifyHmac(request.hmac, orderRawBody(request))
\* Mutant: the override of a failed verification is applied in every mode.
hmacValid_NoModeCheck(request) ==
  LET hmac == request.hmac
      rawBody == orderRawBody(request)
  IN IF IS_DEVELOPMENT /\ ~HeaderPresent(hmac) THEN TRUE
     ELSE (IF ~verifyHmac(hmac, rawBody) THEN TRUE ELSE TRUE)

\* hmacValid after the development bypass
hmacValid(request) ==
  LET hmac == request.hmac
      rawBody == orderRawBody(request)
  IN IF IS_DEVELOPMENT /\ ~HeaderPresent(hmac) THEN TRUE
     ELSE IF IS_DEVELOPMENT
       THEN (IF ~verifyHmac(hmac, rawBody) THEN TRUE ELSE TRUE)
     ELSE verifyHmac(hmac, rawBody)

\* JSON.parse(request.body) throws on a text that is not JSON.
ParseThrows(request) == request.bodyIsString /\ request.body.text # "json"
ParsedOrder(request) ==
  IF request.bodyIsString THEN request.body.order ELSE request.order
orderEmail(order) == Or(order.email, order.custEmail)

\* The handler's locals before it runs.
\* A webhook body.  SKU fields are texts ("" when missing or no string); the
\* other fields are loosely typed values.  An items payload has
\* has_adjustment FALSE; an inventory-adjustment payload has it TRUE and
\* carries inventory_adjustment.
NoItemFields ==
  [ sku |-> Empty, item_sku |-> Empty, rate |-> Undefined, price |-> Undefined,
    available_stock |-> Undefined, stock_on_hand |-> Undefined,
    actual_available_stock |-> Undefined ]
NoAdjustment ==
  [ inventory_adjustment_id |-> 0, new_quantity |-> Undefined, line_items |-> <<>> ]
NoPayload ==
  [ sku |-> Empty, item_sku |-> Empty, item |-> NoItemFields,
    rate |-> Undefined, price |-> Undefined,
    available_stock |-> Undefined, stock_on_hand |-> Undefined,
    actual_available_stock |-> Undefined, quantity_available |-> Undefined,
    quantity |-> Undefined,
    has_adjustment |-> FALSE, inventory_adjustment |-> NoAdjustment ]

NoResults ==
  [ sku |-> Empty, variant_id |-> 0, skipped |-> FALSE,
    priceUpdated |-> "unset", inventoryUpdated |-> "unset" ]
\* What the previous handling of the same request left behind: the storefront
\* and the vendor calls it made (none before the first handling).
NoHandling == [variants |-> <<>>, calls |-> <<>>, handled |-> FALSE]
InitLocal ==
  [ order |-> NoOrder, email |-> Empty, i |-> 0, lineItems |-> <<>>,
    zohoLineItems |-> <<>>, contact |-> 0, push |-> "none",
    sku |-> Empty, price |-> Undefined, available |-> Undefined,
    variant |-> <<>>, item |-> <<>>, results |-> NoResults, updates |-> <<>>,
    body |-> NoPayload, page |-> 0, items |-> <<>>, more |-> FALSE,
    prev |-> NoHandling, fetches |-> <<>> ]
NoRequest == OrderRequest([enc |-> "absent", mac |-> Hmac(Empty, OtherBytes)],
                          NoOrder, FALSE, OtherBytes)
\* String(value)
ToString(n) == [string |-> n]

\* pushShopifyOrderToZoho skips a line before any backend call when it has no
\* SKU or its quantity is not a number.
lineSkipped(li) == ~Truthy(li.sku) \/ li.quantity.t # "number"
\* The first line at or after position from that needs a backend lookup.
NextLookup(lines, from) ==
  LET ks == {k \in from..Len(lines) : ~lineSkipped(lines[k])}
  IN IF ks = {} THEN Len(lines) + 1 ELSE CHOOSE k \in ks : \A j \in ks : k <= j

Reply(code, loc) ==
  /\ status' = code
  /\ pc' = "done"
  /\ local' = loc
\* An exception reaching the route's catch: 500.
Throw500 == Reply(500, [local EXCEPT !.push = IF @ = "none" THEN @ ELSE "threw"])

\* The route from its entry to its first await.
ServeOrder(request) ==
  /\ req' = request
  /\ deliveries' = deliveries + 1
  /\ calls' = <<>>
  /\ UNCHANGED <<cfgVars, zohoVars, shopVars, handler>>
  /\ IF ~hmacValid(request) THEN Reply(401, InitLocal)
     ELSE IF ParseThrows(request) THEN Reply(500, InitLocal)
     ELSE LET order == ParsedOrder(request)
              email == orderEmail(order)
              first == NextLookup(order.lines, 1)
              loc == [InitLocal EXCEPT !.order = order, !.email = email]
          IN IF ~Truthy(email) THEN Reply(200, loc)
             ELSE IF first > Len(order.lines)
               THEN Reply(200, [loc EXCEPT !.push = "void"])
             ELSE /\ status' = 0
                  /\ pc' = "push_find"
                  /\ local' = [loc EXCEPT !.push = "called", !.i = first]

OrderCreated ==
  /\ handler = "order" /\ pc = "idle"
  /\ \E request \in OrderRequests : ServeOrder(request)

\* Variant without the return on an empty list of mapped lines.
PushFindItem_NoEmptyCheck ==
  /\ handler = "order" /\ pc = "push_find"
  /\ UNCHANGED <<cfgVars, zohoVars, shopVars, handler, req, deliveries>>
  /\ \E o \in ZohoOutcomes :
       /\ calls' = calls \o zohoFetch("items_search", o)
       /\ IF zohoFetchThrows(o) THEN Throw500
          ELSE LET lines == local.order.lines
                   li == lines[local.i]
                   item == findZohoItemBySKU(li.sku)
                   lineItems == IF item = <<>> THEN local.lineItems
                                ELSE Append(local.lineItems,
                                            [sku |-> li.sku, quantity |-> li.quantity])
                   next == NextLookup(lines, local.i + 1)
               IN IF next <= Len(lines)
                    THEN /\ local' = [local EXCEPT !.i = next, !.lineItems = lineItems]
                         /\ UNCHANGED <<pc, status>>
                  ELSE /\ local' = [local EXCEPT !.lineItems = lineItems]
                       /\ pc' = "contact_search"
                       /\ UNCHANGED status
\* pushShopifyOrderToZoho: findZohoItemBySKU(li.sku) for the current line.
PushFindItem ==
  /\ handler = "order" /\ pc = "push_find"
  /\ UNCHANGED <<cfgVars, zohoVars, shopVars, handler, req, deliveries>>
  /\ \E o \in ZohoOutcomes :
       /\ calls' = calls \o zohoFetch("items_search", o)
       /\ IF zohoFetchThrows(o) THEN Throw500
          ELSE LET lines == local.order.lines
                   li == lines[local.i]
                   item == findZohoItemBySKU(li.sku)
                   lineItems == IF item = <<>> THEN local.lineItems
                                ELSE Append(local.lineItems,
                                            [sku |-> li.sku, quantity |-> li.quantity])
                   next == NextLookup(lines, local.i + 1)
               IN IF next <= Len(lines)
                    THEN /\ local' = [local EXCEPT !.i = next, !.lineItems = lineItems]
                         /\ UNCHANGED <<pc, status>>
                  ELSE IF lineItems = <<>>
                    THEN Reply(200, [local EXCEPT !.push = "void"])
                  ELSE /\ local' = [local EXCEPT !.lineItems = lineItems]
                       /\ pc' = "contact_search"
                       /\ UNCHANGED status

\* createZohoSalesOrder -> getOrCreateZohoContactByEmail: the contact search.
ContactSearch ==
  /\ handler = "order" /\ pc = "contact_search"
  /\ UNCHANGED <<cfgVars, zohoVars, shopVars, handler, req, deliveries>>
  /\ \E o \in ZohoOutcomes :
       /\ calls' = calls \o zohoFetch("contacts_search", o)
       /\ IF zohoFetchThrows(o) THEN Throw500
          ELSE LET contacts == ContactSearchResult(local.email)
               IN IF Len(contacts) > 0
                    THEN /\ local' = [local EXCEPT !.contact = contacts[1].contact_id,
                                                    !.i = 1]
                         /\ pc' = "so_find"
                         /\ UNCHANGED status
                  ELSE /\ pc' = "contact_create"
                       /\ UNCHANGED <<local, status>>

\* getOrCreateZohoContactByEmail: POST contacts.
ContactCreate ==
  /\ handler = "order" /\ pc = "contact_create"
  /\ UNCHANGED <<cfgVars, zohoItems, zohoPages, zohoSalesOrders, shopVars, handler, req,
                 deliveries>>
  /\ \E o \in ZohoOutcomes :
       /\ calls' = calls \o zohoFetch("contacts_create", o)
       /\ IF zohoFetchThrows(o) THEN Throw500 /\ UNCHANGED zohoContacts
          ELSE LET id == Len(zohoContacts) + 1
               IN /\ zohoContacts' =
                       Append(zohoContacts, [contact_id |-> id, email |-> local.email])
                  /\ local' = [local EXCEPT !.contact = id, !.i = 1]
                  /\ pc' = "so_find"
                  /\ UNCHANGED status

\* createZohoSalesOrder: findZohoItemBySKU(li.sku) for the current mapped line.
SalesOrderFindItem ==
  /\ handler = "order" /\ pc = "so_find"
  /\ UNCHANGED <<cfgVars, zohoVars, shopVars, handler, req, deliveries>>
  /\ \E o \in ZohoOutcomes :
       /\ calls' = calls \o zohoFetch("items_search", o)
       /\ IF zohoFetchThrows(o) THEN Throw500
          ELSE LET li == local.lineItems[local.i]
                   item == findZohoItemBySKU(li.sku)
               IN IF item = <<>> THEN Throw500
                  ELSE LET zl == Append(local.zohoLineItems,
                                        [ item_id |-> item[1].item_id,
                                          quantity |-> li.quantity ])
                       IN /\ local' =
                               [local EXCEPT !.zohoLineItems = zl, !.i = @ + 1]
                          /\ pc' = IF local.i < Len(local.lineItems)
                                     THEN "so_find" ELSE "so_post"
                          /\ UNCHANGED status

\* createZohoSalesOrder: POST salesorders, then the route replies.
SalesOrderPost ==
  /\ handler = "order" /\ pc = "so_post"
  /\ UNCHANGED <<cfgVars, zohoItems, zohoPages, zohoContacts, shopVars, handler, req,
                 deliveries>>
  /\ \E o \in ZohoOutcomes :
       /\ calls' = calls \o zohoFetch("salesorders_create", o)
       /\ IF zohoFetchThrows(o) THEN Throw500 /\ UNCHANGED zohoSalesOrders
          ELSE /\ zohoSalesOrders' =
                    Append(zohoSalesOrders,
                           [ customer_id |-> local.contact,
                             reference_number |-> ToString(local.order.id),
                             line_items |-> local.zohoLineItems ])
               /\ Reply(200, [local EXCEPT !.push = "created"])

\* The sender delivers the same order again (its retry, not the bridge's).
Redeliver ==
  /\ handler = "order" /\ pc = "done"
  /\ deliveries < MaxDeliveries
  /\ ServeOrder(req)

Contact1 == [contact_id |-> 1, email |-> Email1]
InitOrder ==
  /\ IS_DEVELOPMENT \in BOOLEAN
  /\ SHOPIFY_SECRET \in {Empty, TheSecret}
  /\ SECRET = TheSecret
  /\ ZOHO_ENV = ZohoConfigured
  /\ zohoItems \in OrderCatalogs
  /\ zohoPages = <<>>
  /\ zohoContacts \in {<<>>, <<Contact1>>}
  /\ zohoSalesOrders = <<>>
  /\ variants = <<>>
  /\ shop = [primary_location_id |-> 0]
  /\ FALLBACK_LOCATION_ID = Empty
  /\ handler = "order"
  /\ req = NoRequest
  /\ pc = "idle"
  /\ status = 0
  /\ calls = <<>>
  /\ local = InitLocal
  /\ deliveries = 0

NextOrder ==
  \/ OrderCreated
  \/ PushFindItem
  \/ ContactSearch
  \/ ContactCreate
  \/ SalesOrderFindItem
  \/ SalesOrderPost

SpecOrder == InitOrder /\ [][NextOrder]_vars

\* ------------------------------------------- backend inventory webhook route
coerceNumber(value) ==
  IF IsNullish(value) THEN Undefined
  ELSE IF value.nan THEN Undefined
  ELSE Num(value.n)
extractString(value) == IF value.t = "string" THEN value ELSE Undefined

pickSKU(body) ==
  Or(Or(Or(body.sku, body.item_sku), body.item.sku), body.item.item_sku)

pickPrice(body) ==
  LET candidate ==
        Coalesce(Coalesce(Coalesce(body.rate, body.price), body.item.rate),
                 body.item.price)
      n == coerceNumber(candidate)
  IN IF ~IsNullish(n) THEN n ELSE extractString(candidate)

\* The first candidate of the list that coerces to a number.
FirstNumber(candidates) ==
  LET k == FirstIndex({j \in DOMAIN candidates :
                         ~IsNullish(coerceNumber(candidates[j]))})
  IN IF k = 0 THEN Undefined ELSE coerceNumber(candidates[k])
pickAvailableStock(body) ==
  LET absCandidates ==
        << body.available_stock, body.stock_on_hand,
           body.actual_available_stock, body.quantity_available,
           body.item.available_stock, body.item.stock_on_hand,
           body.item.actual_available_stock >>
      n == FirstNumber(absCandidates)
  IN IF ~IsNullish(n) THEN n ELSE coerceNumber(body.quantity)

\* authorization?.replace(/^Bearer\s+/i, ""): the scheme word is one element.
StripBearer(text) ==
  IF Len(text) > 0 /\ text[1] = "Bearer " THEN Tail(text) ELSE text

zohoRawBody(request) ==
  IF request.rawBodyKept THEN request.rawBody
  ELSE IF request.bodyIsString THEN request.body
  ELSE [text |-> "json", order |-> request.payload]

\* authorized after the signature check (base64, else hex)
signatureAuthorized(request) ==
  LET signature == request.signature
      computedBase64 == DigestBase64(Hmac(SECRET, zohoRawBody(request)))
      sigStr == Trim(signature)
      a == Base64Decode(sigStr)
      b == Base64Decode(computedBase64)
      computedHex == DigestHex(Hmac(SECRET, zohoRawBody(request)))
  IN IF ~HeaderPresent(signature) THEN FALSE
     ELSE IF a.len = b.len THEN timingSafeEqual(a, b)
     ELSE ToLowerCase(sigStr) = ToLowerCase(computedHex)

\* Variant that accepts any shared-secret header.
headerSecretAuthorized_AnySecret(request) ==
  Truthy(Or(Or(request.xWebhookSecret, request.xZohoWebhookSecret),
            StripBearer(request.authorization)))
\* authorized after the shared-secret header fallback
headerSecretAuthorized(request) ==
  LET headerSecret ==
        Or(Or(request.xWebhookSecret, request.xZohoWebhookSecret),
           StripBearer(request.authorization))
  IN Truthy(headerSecret) /\ headerSecret = SECRET

authorized(request) ==
  IF signatureAuthorized(request) THEN TRUE ELSE headerSecretAuthorized(request)
\* ------------------------------------------------- order route: properties
\* Vocabulary of the statements below, defined on the request as delivered.
\* The header is a base64 text of HMAC-SHA256(bytes delivered, shared secret).
CarriesDigest(request) ==
  /\ Truthy(SHOPIFY_SECRET)
  /\ request.hmac.enc \in {"base64", "base64ws"}
  /\ request.hmac.mac = Hmac(SHOPIFY_SECRET, request.rawBody)
Serving(route) == handler = route /\ pc # "idle"
PushInvoked == local.push # "none"
NoVendorCall == calls = <<>>
Rejected401 == status = 401 /\ ~PushInvoked /\ NoVendorCall
SomeCallFailed == \E k \in DOMAIN calls : ~calls[k].ok
HasEmail(order) == Truthy(order.email) \/ Truthy(order.custEmail)

\* C2: outside development mode the order push is invoked (and any backend call
\* made) only for a request whose x-shopify-hmac-sha256 header is the base64
\* HMAC-SHA256 of the raw body under the shared secret; a request with a
\* missing or mismatching header, or with no secret configured, gets 401 and
\* no vendor call.
C2_HmacGate ==
  (Serving("order") /\ ~IS_DEVELOPMENT) =>
    /\ (PushInvoked \/ ~NoVendorCall) => CarriesDigest(req)
    /\ ~CarriesDigest(req) => Rejected401
C2_Witness ==
  /\ Serving("order") /\ ~IS_DEVELOPMENT /\ Truthy(SHOPIFY_SECRET)
  /\ HeaderPresent(req.hmac) /\ ~CarriesDigest(req)
  /\ status = 401

\* C3: in development mode a request with no HMAC header is not rejected: the
\* order is parsed, the push is invoked when the order has an email, and the
\* reply is 200 when the push does not throw.
C3_DevBypass ==
  (Serving("order") /\ IS_DEVELOPMENT /\ ~HeaderPresent(req.hmac)) =>
    /\ status # 401
    /\ ~ParseThrows(req) =>
         /\ HasEmail(ParsedOrder(req)) => PushInvoked
         /\ (pc = "done" /\ local.push # "threw") => status = 200
C3_Witness ==
  /\ Serving("order") /\ IS_DEVELOPMENT /\ ~HeaderPresent(req.hmac)
  /\ local.push = "created" /\ status = 200

\* C4 as stated: in every mode a request whose HMAC header is present and does
\* not match is rejected with 401 and the order is not pushed.
C4_MismatchAlwaysRejected ==
  (Serving("order") /\ HeaderPresent(req.hmac) /\ ~CarriesDigest(req)) =>
    Rejected401
\* C4 amended: a request whose HMAC header is present and does not match is
\* rejected with 401 (no push, no vendor call) exactly when the route is not in
\* development mode; in development mode it is accepted and never answered 401.
C4_MismatchRejectedIffProduction ==
  (Serving("order") /\ HeaderPresent(req.hmac) /\ ~CarriesDigest(req)) =>
    /\ ~IS_DEVELOPMENT => Rejected401
    /\ IS_DEVELOPMENT =>
         /\ status # 401
         /\ (~ParseThrows(req) /\ HasEmail(ParsedOrder(req))) => PushInvoked
C4_Witness ==
  /\ Serving("order") /\ IS_DEVELOPMENT
  /\ HeaderPresent(req.hmac) /\ ~CarriesDigest(req)
  /\ local.push = "created" /\ status = 200

\* The order's lines that have a SKU, a numeric quantity and a backend item
\* with exactly that SKU.
LineMatched(li) ==
  /\ Truthy(li.sku)
  /\ li.quantity.t = "number"
  /\ \E k \in DOMAIN zohoItems : zohoItems[k].sku = li.sku
MatchedLines(order) == SelectSeq(order.lines, LineMatched)
\* A sales order's lines as (sku of the backend item, quantity).
SkuOfItemId(id) ==
  LET k == CHOOSE j \in DOMAIN zohoItems : zohoItems[j].item_id = id
  IN zohoItems[k].sku
SalesOrderLines(so) ==
  [ k \in DOMAIN so.line_items |->
      [ sku |-> SkuOfItemId(so.line_items[k].item_id),
        quantity |-> so.line_items[k].quantity ] ]
LastSalesOrder == zohoSalesOrders[Len(zohoSalesOrders)]

\* C7: the sales order created for an order with an email holds exactly the
\* order's lines whose SKU has an exact backend match (lines with no match, no
\* SKU or a non-numeric quantity are left out), in the order's line order and
\* with each quantity unchanged.
C7_SalesOrderLines ==
  (Serving("order") /\ local.push = "created") =>
    /\ HasEmail(ParsedOrder(req))
    /\ Len(zohoSalesOrders) > 0
    /\ SalesOrderLines(LastSalesOrder) = MatchedLines(ParsedOrder(req))
\* Lines A (quantity 2), B (quantity 1) with B unmatched: exactly the A line.
C7_Witness ==
  /\ Serving("order") /\ local.push = "created"
  /\ ParsedOrder(req).lines =
       << [sku |-> SkuA, quantity |-> Num(2)], [sku |-> SkuB, quantity |-> Num(1)] >>
  /\ \A k \in DOMAIN zohoItems : zohoItems[k].sku # SkuB
  /\ LastSalesOrder.line_items = << [item_id |-> 1, quantity |-> Num(2)] >>

\* Causes of failure the statement of C8 allows.
ZeroLinesResolve == MatchedLines(ParsedOrder(req)) = <<>>
ContactCallFailed ==
  \E k \in DOMAIN calls :
    ~calls[k].ok /\ calls[k].op \in {"contacts_search", "contacts_create"}
PushReturned == Serving("order") /\ pc = "done" /\ PushInvoked
SalesOrderCreatedNow == local.push = "created"

\* C8 as stated: the push fails only if zero lines resolve or the contact call
\* fails, and in every other case it creates a sales order.
C8_FailsOnlyZeroLinesOrContact ==
  PushReturned =>
    /\ local.push = "threw" => (ZeroLinesResolve \/ ContactCallFailed)
    /\ ~(ZeroLinesResolve \/ ContactCallFailed) => SalesOrderCreatedNow
\* C8 amended: the push fails exactly when one of its backend calls fails
\* (token exchange or request of an item search, the contact search or
\* creation, or the sales-order POST); when no call fails and zero lines
\* resolve it returns without error and without a sales order; in every other
\* case it creates a sales order.
C8_FailsIffBackendCallFails ==
  PushReturned =>
    /\ local.push = "threw" <=> SomeCallFailed
    /\ (~SomeCallFailed /\ ZeroLinesResolve) =>
         (local.push = "void" /\ zohoSalesOrders = <<>>)
    /\ (~SomeCallFailed /\ ~ZeroLinesResolve) => SalesOrderCreatedNow
C8_Witness ==
  /\ PushReturned /\ local.push = "threw"
  /\ ~ZeroLinesResolve /\ ~ContactCallFailed
  /\ \E k \in DOMAIN calls : calls[k].op = "salesorders_create" /\ ~calls[k].ok

\* ---------------------------------------------- redelivery by the storefront
\* The storefront signs every delivery with the shared secret and delivers an
\* order again when it saw no 200 (or saw none in time).
GenuineRequests ==
  { OrderRequest(DigestBase64(Hmac(TheSecret, JsonText(o))), o, FALSE, JsonText(o)) :
      o \in Orders }
OrderCreatedGenuine ==
  /\ handler = "order" /\ pc = "idle"
  /\ \E request \in GenuineRequests : ServeOrder(request)
InitRedelivery ==
  /\ InitOrder
  /\ ~IS_DEVELOPMENT
  /\ SHOPIFY_SECRET = TheSecret
NextRedelivery ==
  \/ OrderCreatedGenuine
  \/ Redeliver
  \/ PushFindItem
  \/ ContactSearch
  \/ ContactCreate
  \/ SalesOrderFindItem
  \/ SalesOrderPost
SpecRedelivery == InitRedelivery /\ [][NextRedelivery]_vars

SalesOrdersFor(id) ==
  {k \in DOMAIN zohoSalesOrders : zohoSalesOrders[k].reference_number = ToString(id)}
\* C9: over any sequence of authenticated deliveries, redeliveries of the same
\* order included, at most one sales order exists for a storefront order id.
C9_OneSalesOrderPerOrder ==
  \A id \in OrderIds : Cardinality(SalesOrdersFor(id)) <= 1

\* Items payloads: price and stock; SKU and price under item; no SKU; a SKU the
\* storefront does not have; only the quantity fallback; an empty-string stock;
\* several absolute fields next to quantity; a stock that is no number.
FlatPayloads ==
  { [NoPayload EXCEPT !.sku = SkuA, !.rate = Num(12), !.available_stock = Num(4)],
    [NoPayload EXCEPT !.item = [NoItemFields EXCEPT !.sku = SkuA,
                                                    !.price = Fixed2Str(10)]],
    [NoPayload EXCEPT !.rate = Num(12)],
    [NoPayload EXCEPT !.sku = SkuB, !.rate = Num(12), !.available_stock = Num(4)],
    [NoPayload EXCEPT !.sku = SkuA, !.quantity = NumStr(3)],
    [NoPayload EXCEPT !.sku = SkuA, !.available_stock = EmptyStr,
                      !.price = TextStr],
    [NoPayload EXCEPT !.sku = SkuA, !.stock_on_hand = Num(7),
                      !.actual_available_stock = Num(8), !.quantity = Num(9)],
    [NoPayload EXCEPT !.sku = SkuA, !.available_stock = TextStr,
                      !.item = [NoItemFields EXCEPT !.stock_on_hand = Num(3)],
                      !.quantity = Num(9)] }

\* Adjustment lines: an absolute new_quantity; no item_id; an item the
\* storefront does not carry; no new_quantity on the line.
AdjLine(id, newQuantity, adjusted) ==
  [item_id |-> id, new_quantity |-> newQuantity, quantity_adjusted |-> adjusted]
AdjLineChoices ==
  { AdjLine(1, Num(4), Num(-1)),
    AdjLine(0, Num(4), Num(-1)),
    AdjLine(3, Num(4), Undefined),
    AdjLine(1, Undefined, Num(-1)) }
AdjustmentPayloads ==
  { [NoPayload EXCEPT !.has_adjustment = TRUE,
                      !.inventory_adjustment =
                         [ inventory_adjustment_id |-> 7, new_quantity |-> q,
                           line_items |-> ls ]] :
      q \in {Undefined, Num(6)}, ls \in SeqUpTo(AdjLineChoices, MaxLines) }
ZohoPayloads == FlatPayloads \cup AdjustmentPayloads
ProbePayloads ==
  { [NoPayload EXCEPT !.sku = SkuA, !.rate = Num(12), !.available_stock = Num(4)],
    [NoPayload EXCEPT !.has_adjustment = TRUE,
                      !.inventory_adjustment =
                         [ inventory_adjustment_id |-> 7, new_quantity |-> Undefined,
                           line_items |-> << AdjLine(1, Num(4), Num(-1)) >> ]] }

\* A request to the backend webhook route.
ZohoRequest(sig, xws, xzws, auth, payload, isString, text) ==
  [ signature |-> sig, xWebhookSecret |-> xws, xZohoWebhookSecret |-> xzws,
    authorization |-> auth, bodyIsString |-> isString, body |-> text,
    payload |-> payload, rawBodyKept |-> TRUE, rawBody |-> text ]
OtherSecret == <<"s", "2">>
SignaturesFor(b) ==
  HeadersFor(b) \cup { [enc |-> e, mac |-> Hmac(TheSecret, b)] : e \in {"hex", "HEX"} }
NoSignature(b) == [enc |-> "absent", mac |-> Hmac(Empty, b)]
AuthorizationHeaders ==
  { Empty, <<"Bearer ">> \o TheSecret, <<"Bearer ">> \o OtherSecret,
    <<"Basic ">> \o TheSecret }
\* Every combination of credentials, on two payloads.
ZohoProbeRequests ==
  UNION { { ZohoRequest(sig, xws, xzws, auth, pl, FALSE, JsonText(pl)) :
              sig \in SignaturesFor(JsonText(pl)),
              xws \in {Empty, TheSecret, OtherSecret},
              xzws \in {Empty, TheSecret},
              auth \in AuthorizationHeaders } : pl \in ProbePayloads }
\* Every payload, under a valid signature or a shared-secret header.
ZohoPayloadRequests ==
  UNION { { ZohoRequest(DigestBase64(Hmac(TheSecret, JsonText(pl))), Empty, Empty,
                        Empty, pl, FALSE, JsonText(pl)),
            ZohoRequest(NoSignature(JsonText(pl)), TheSecret, Empty, Empty, pl,
                        TRUE, JsonText(pl)) } : pl \in ZohoPayloads }
  \cup { ZohoRequest(NoSignature(GarbageText), TheSecret, Empty, Empty, NoPayload,
                     TRUE, GarbageText) }
ZohoRequests == ZohoProbeRequests \cup ZohoPayloadRequests

\* An entry of the updates list of the adjustment reply.
Update(id, kind, reason) == [item_id |-> id, kind |-> kind, reason |-> reason]
\* The lines from position from up to the next line with an item_id: each line
\* without one adds a skipped entry.
AdjNext(lines, from) ==
  LET ks == {k \in from..Len(lines) : lines[k].item_id # 0}
  IN IF ks = {} THEN Len(lines) + 1 ELSE CHOOSE k \in ks : \A j \in ks : k <= j
AdjSkips(from, to) == [k \in 1..(to - from) |-> Update(0, "skipped", "No item_id")]
AdjLines == local.body.inventory_adjustment.line_items

\* Variant in which a line that failed ends the batch.
AdjAdvance_StopOnError(lines, loc, entry) ==
  LET next == AdjNext(lines, loc.i + 1)
      ups == (loc.updates \o entry) \o AdjSkips(loc.i + 1, next)
      l2 == [loc EXCEPT !.updates = ups, !.i = next, !.item = <<>>,
                        !.variant = <<>>, !.available = Undefined]
  IN IF entry # <<>> /\ entry[1].kind = "error"
       THEN Reply(200, [loc EXCEPT !.updates = loc.updates \o entry])
     ELSE IF next > Len(lines) THEN Reply(200, l2)
     ELSE /\ local' = l2
          /\ pc' = "adj_get_item"
          /\ UNCHANGED status
\* The adjustment loop after the current line produced entry: on to the next
\* line that needs a backend call, or the 200 reply.
AdjAdvance(lines, loc, entry) ==
  LET next == AdjNext(lines, loc.i + 1)
      ups == (loc.updates \o entry) \o AdjSkips(loc.i + 1, next)
      l2 == [loc EXCEPT !.updates = ups, !.i = next, !.item = <<>>,
                        !.variant = <<>>, !.available = Undefined]
  IN IF next > Len(lines) THEN Reply(200, l2)
     ELSE /\ local' = l2
          /\ pc' = "adj_get_item"
          /\ UNCHANGED status

\* The route from its entry to its first await; base is the handler's
\* locals at entry.
ServeZoho(request, base) ==
  /\ req' = request
  /\ deliveries' = deliveries + 1
  /\ calls' = <<>>
  /\ UNCHANGED <<cfgVars, zohoVars, shopVars, handler>>
  /\ IF ~Truthy(SECRET) THEN Reply(401, base)
     ELSE IF ~authorized(request) THEN Reply(401, base)
     ELSE IF ParseThrows(request) THEN Reply(500, base)
     ELSE LET body == IF request.bodyIsString THEN request.body.order
                      ELSE request.payload
              loc == [base EXCEPT !.body = body]
          IN IF ~body.has_adjustment
               THEN LET sku == pickSKU(body)
                    IN IF ~Truthy(sku)
                         THEN Reply(200, [loc EXCEPT !.results.skipped = TRUE])
                       ELSE /\ local' = [loc EXCEPT
                                           !.sku = sku,
                                           !.price = pickPrice(body),
                                           !.available = pickAvailableStock(body)]
                            /\ pc' = "flat_find_variant"
                            /\ status' = 0
             ELSE LET lines == body.inventory_adjustment.line_items
                  IN AdjAdvance(lines, loc, <<>>)

ZohoWebhook ==
  /\ handler = "zoho" /\ pc = "idle"
  /\ \E request \in ZohoRequests : ServeZoho(request, InitLocal)

\* Which update the items path makes next, after the variant was found or the
\* price was dealt with.
FlatAfterPrice(loc) ==
  IF loc.available.t = "number"
    THEN /\ local' = loc
         /\ pc' = "flat_set_inventory"
         /\ UNCHANGED status
  ELSE Reply(200, loc)

\* Items path: findVariantBySKU(sku); a failure reaches the route's catch.
FlatFindVariant ==
  /\ handler = "zoho" /\ pc = "flat_find_variant"
  /\ UNCHANGED <<cfgVars, zohoVars, shopVars, handler, req, deliveries>>
  /\ \E o \in ShopifyOutcomes :
       /\ calls' = calls \o shopifyFetch("variants_search", o)
       /\ IF shopifyFetchThrows(o) THEN Reply(500, local)
          ELSE LET variant == findVariantBySKU(local.sku)
               IN IF variant = <<>>
                    THEN Reply(200, [local EXCEPT !.results.skipped = TRUE,
                                                  !.results.sku = local.sku])
                  ELSE LET loc == [local EXCEPT
                                     !.variant = variant,
                                     !.results.sku = local.sku,
                                     !.results.variant_id = variant[1].id]
                       IN IF ~IsNullish(local.price)
                            THEN /\ local' = loc
                                 /\ pc' = "flat_update_price"
                                 /\ UNCHANGED status
                          ELSE FlatAfterPrice(loc)

\* Variant without the try/catch around updateVariantPrice.
FlatUpdatePrice_AbortOnError ==
  /\ handler = "zoho" /\ pc = "flat_update_price"
  /\ UNCHANGED <<cfgVars, zohoVars, shop, handler, req, deliveries>>
  /\ \E o \in ShopifyOutcomes :
       /\ calls' = calls \o shopifyFetch("variant_update", o)
       /\ IF shopifyFetchThrows(o)
            THEN /\ UNCHANGED variants
                 /\ Reply(500, local)
          ELSE /\ variants' = updateVariantPrice(local.variant[1].id, local.price)
               /\ FlatAfterPrice([local EXCEPT !.results.priceUpdated = "true"])
\* Items path: updateVariantPrice inside its own try/catch.
FlatUpdatePrice ==
  /\ handler = "zoho" /\ pc = "flat_update_price"
  /\ UNCHANGED <<cfgVars, zohoVars, shop, handler, req, deliveries>>
  /\ \E o \in ShopifyOutcomes :
       /\ calls' = calls \o shopifyFetch("variant_update", o)
       /\ IF shopifyFetchThrows(o)
            THEN /\ UNCHANGED variants
                 /\ FlatAfterPrice([local EXCEPT !.results.priceUpdated = "false"])
          ELSE /\ variants' = updateVariantPrice(local.variant[1].id, local.price)
               /\ FlatAfterPrice([local EXCEPT !.results.priceUpdated = "true"])

\* Items path: setInventoryLevel inside its own try/catch, then the 200 reply.
FlatSetInventory ==
  /\ handler = "zoho" /\ pc = "flat_set_inventory"
  /\ UNCHANGED <<cfgVars, zohoVars, shop, handler, req, deliveries>>
  /\ \E oShop \in ShopifyOutcomes, oLevels \in ShopifyOutcomes,
        oSet \in ShopifyOutcomes :
       LET r == setInventoryLevel(local.variant[1].inventory_item_id,
                                  local.available, oShop, oLevels, oSet)
       IN /\ calls' = calls \o r.calls
          /\ variants' = r.variants
          /\ Reply(200, [local EXCEPT !.results.inventoryUpdated =
                                        IF r.threw THEN "false" ELSE "true"])

\* data.item of items/{itemId}; the backend answers an unknown id with an
\* error status.
ZohoItemById(itemId) ==
  LET k == FirstIndex({j \in DOMAIN zohoItems : zohoItems[j].item_id = itemId})
  IN IF k = 0 THEN <<>> ELSE << zohoItems[k] >>

\* Adjustment path: getZohoItemById(itemId) for the current line.
AdjGetItem ==
  /\ handler = "zoho" /\ pc = "adj_get_item"
  /\ UNCHANGED <<cfgVars, zohoVars, shopVars, handler, req, deliveries>>
  /\ \E o \in ZohoOutcomes :
       LET li == AdjLines[local.i]
           item == ZohoItemById(li.item_id)
           outcome == IF o = "ok" /\ item = <<>> THEN "api_error" ELSE o
       IN /\ calls' = calls \o zohoFetch("items_get", outcome)
          /\ IF zohoFetchThrows(outcome)
               THEN AdjAdvance(AdjLines, local, << Update(0, "error", "") >>)
             ELSE IF ~Truthy(item[1].sku)
               THEN AdjAdvance(AdjLines, local,
                               << Update(li.item_id, "skipped", "No SKU on item") >>)
             ELSE /\ local' = [local EXCEPT !.item = item, !.sku = item[1].sku]
                  /\ pc' = "adj_find_variant"
                  /\ UNCHANGED status

\* The absolute quantity of an adjustment line.
newQty(li, adj, item) ==
  Coalesce(Coalesce(coerceNumber(li.new_quantity), coerceNumber(adj.new_quantity)),
           coerceNumber(Coalesce(Coalesce(item.available_stock, item.stock_on_hand),
                                 item.actual_available_stock)))

\* Adjustment path: findVariantBySKU(sku) for the current line.
AdjFindVariant ==
  /\ handler = "zoho" /\ pc = "adj_find_variant"
  /\ UNCHANGED <<cfgVars, zohoVars, shopVars, handler, req, deliveries>>
  /\ \E o \in ShopifyOutcomes :
       LET li == AdjLines[local.i]
           variant == findVariantBySKU(local.sku)
           qty == newQty(li, local.body.inventory_adjustment, local.item[1])
       IN /\ calls' = calls \o shopifyFetch("variants_search", o)
          /\ IF shopifyFetchThrows(o)
               THEN AdjAdvance(AdjLines, local, << Update(0, "error", "") >>)
             ELSE IF variant = <<>>
               THEN AdjAdvance(AdjLines, local,
                               << Update(li.item_id, "skipped", "SKU not in Shopify") >>)
             ELSE IF qty.t # "number"
               THEN AdjAdvance(AdjLines, local,
                               << Update(li.item_id, "skipped", "No absolute quantity") >>)
             ELSE /\ local' = [local EXCEPT !.variant = variant, !.available = qty]
                  /\ pc' = "adj_set_inventory"
                  /\ UNCHANGED status

\* Adjustment path: setInventoryLevel for the current line.
AdjSetInventory ==
  /\ handler = "zoho" /\ pc = "adj_set_inventory"
  /\ UNCHANGED <<cfgVars, zohoVars, shop, handler, req, deliveries>>
  /\ \E oShop \in ShopifyOutcomes, oLevels \in ShopifyOutcomes,
        oSet \in ShopifyOutcomes :
       LET li == AdjLines[local.i]
           r == setInventoryLevel(local.variant[1].inventory_item_id,
                                  local.available, oShop, oLevels, oSet)
       IN /\ calls' = calls \o r.calls
          /\ variants' = r.variants
          /\ IF r.threw
               THEN AdjAdvance(AdjLines, local, << Update(0, "error", "") >>)
             ELSE AdjAdvance(AdjLines, local,
                             << Update(li.item_id, "updated", "") >>)

\* Backend catalogs and storefronts the webhook runs against.
ItemANoStock == ZohoItem(1, SkuA, Num(10), Undefined)
\* A without rate and available_stock but with stock_on_hand.
ItemAOnHand ==
  [ZohoItem(1, SkuA, Undefined, Undefined) EXCEPT !.stock_on_hand = Num(4)]
ItemNoSku == ZohoItem(3, Empty, Num(12), Num(7))
HookCatalogs ==
  { <<ItemA, ItemB>>, <<ItemANoStock, ItemNoSku>>, <<ItemAOnHand, ItemB>> }
VarA == Variant(1, SkuA, Fixed2Str(10), << Level(1, Num(5)) >>)
VarAX == Variant(2, SkuAX, Fixed2Str(12), <<>>)
Storefronts == { <<VarAX, VarA>>, <<VarAX>> }
\* shop.primary_location_id and DEFAULT_LOCATION_ID: a primary location; none
\* but a default; neither.
LocationSetups ==
  { <<[primary_location_id |-> 1], Empty>>,
    <<[primary_location_id |-> 0], <<"9">> >>,
    <<[primary_location_id |-> 0], Empty>> }

InitZohoHook ==
  /\ IS_DEVELOPMENT = FALSE
  /\ SHOPIFY_SECRET = TheSecret
  /\ SECRET \in {Empty, TheSecret}
  /\ ZOHO_ENV = ZohoConfigured
  /\ zohoItems \in HookCatalogs
  /\ zohoPages = <<>>
  /\ zohoContacts = <<>>
  /\ zohoSalesOrders = <<>>
  /\ variants \in Storefronts
  /\ \E setup \in LocationSetups :
       /\ shop = setup[1]
       /\ FALLBACK_LOCATION_ID = setup[2]
  /\ handler = "zoho"
  /\ req = NoRequest
  /\ pc = "idle"
  /\ status = 0
  /\ calls = <<>>
  /\ local = InitLocal
  /\ deliveries = 0

NextZohoHook ==
  \/ ZohoWebhook
  \/ FlatFindVariant
  \/ FlatUpdatePrice
  \/ FlatSetInventory
  \/ AdjGetItem
  \/ AdjFindVariant
  \/ AdjSetInventory

SpecZohoHook == InitZohoHook /\ [][NextZohoHook]_vars

\* ------------------------------------------------------------- sync route
\* One answer of items?page=n: has_more_page is "true", "false" or "absent"
\* (no page_context, or no flag in it).
Page(items, more) == [items |-> items, has_more_page |-> more]
\* data of listZohoItemsPaged(page); past the last page the backend lists no
\* items.
listZohoItemsPaged(page) ==
  IF page <= Len(zohoPages) THEN zohoPages[page] ELSE Page(<<>>, "false")

\* zohoPrice: item.rate != null ? String(item.rate) : ""
zohoPrice(item) == IF ~IsNullish(item.rate) THEN String(item.rate) ELSE EmptyStr
\* a non-empty string is truthy
TruthyText(v) == v.form # "empty"
\* zohoPrice && variant.price !== zohoPrice
priceNeedsUpdate(item, variant) ==
  TruthyText(zohoPrice(item)) /\ variant.price # zohoPrice(item)

\* typeof x === "number" && x
NumberAnd(x) == IF x.t = "number" THEN x ELSE False
\* available: the three operands chained with ??
syncAvailable(item) ==
  Coalesce(Coalesce(NumberAnd(item.available_stock),
                    NumberAnd(item.actual_available_stock)),
           NumberAnd(item.stock_on_hand))

\* Variant that does not pass over the items without a SKU.
SyncNext_NoSkip(items, from) == from
\* The first item at or after position from that has a SKU.
SyncNext(items, from) ==
  LET ks == {k \in from..Len(items) : Truthy(items[k].sku)}
  IN IF ks = {} THEN Len(items) + 1 ELSE CHOOSE k \in ks : \A j \in ks : k <= j

\* Variant that asks for the next page whatever has_more_page says.
SyncAdvance_IgnoreMore(loc) ==
  LET next == SyncNext(loc.items, loc.i + 1)
      l2 == [loc EXCEPT !.i = next, !.variant = <<>>, !.available = Undefined]
  IN IF next <= Len(loc.items)
       THEN /\ local' = l2
            /\ pc' = "sync_find_variant"
            /\ UNCHANGED status
     ELSE /\ local' = [l2 EXCEPT !.page = @ + 1, !.i = 0, !.items = <<>>]
          /\ pc' = "sync_list_page"
          /\ UNCHANGED status
\* The loop after the current item is done: the next item with a SKU, else
\* the next page, else the reply.
SyncAdvance(loc) ==
  LET next == SyncNext(loc.items, loc.i + 1)
      l2 == [loc EXCEPT !.i = next, !.variant = <<>>, !.available = Undefined]
  IN IF next <= Len(loc.items)
       THEN /\ local' = l2
            /\ pc' = "sync_find_variant"
            /\ UNCHANGED status
     ELSE IF loc.more
       THEN /\ local' = [l2 EXCEPT !.page = @ + 1, !.i = 0, !.items = <<>>]
            /\ pc' = "sync_list_page"
            /\ UNCHANGED status
     ELSE Reply(200, l2)

\* After the price was dealt with: the inventory level, or the next item.
SyncAfterPrice(loc) ==
  LET available == syncAvailable(loc.items[loc.i])
  IN IF available.t = "number"
       THEN /\ local' = [loc EXCEPT !.available = available]
            /\ pc' = "sync_set_inventory"
            /\ UNCHANGED status
     ELSE SyncAdvance(loc)

\* The route calls run(), which starts syncZohoToShopify at page 1.
SyncRun ==
  /\ handler = "sync" /\ pc \in {"idle", "done"}
  /\ deliveries < MaxDeliveries
  /\ deliveries' = deliveries + 1
  /\ calls' = <<>>
  /\ status' = 0
  /\ pc' = "sync_list_page"
  /\ local' = [InitLocal EXCEPT !.page = 1]
  /\ UNCHANGED <<cfgVars, zohoVars, shopVars, handler, req>>

\* listZohoItemsPaged(page)
SyncListPage ==
  /\ handler = "sync" /\ pc = "sync_list_page"
  /\ UNCHANGED <<cfgVars, zohoVars, shopVars, handler, req, deliveries>>
  /\ \E o \in ZohoOutcomes :
       /\ calls' = calls \o zohoFetch("items_list", o)
       /\ IF zohoFetchThrows(o) THEN Reply(500, local)
          ELSE LET data == listZohoItemsPaged(local.page)
                   loc == [local EXCEPT !.items = data.items, !.i = 0,
                                        !.more = (data.has_more_page = "true")]
               IN IF Len(data.items) = 0 THEN Reply(200, loc)
                  ELSE SyncAdvance(loc)

\* findVariantBySKU(sku) for the current item
SyncFindVariant ==
  /\ handler = "sync" /\ pc = "sync_find_variant"
  /\ UNCHANGED <<cfgVars, zohoVars, shopVars, handler, req, deliveries>>
  /\ \E o \in ShopifyOutcomes :
       /\ calls' = calls \o shopifyFetch("variants_search", o)
       /\ IF shopifyFetchThrows(o) THEN Reply(500, local)
          ELSE LET item == local.items[local.i]
                   variant == findVariantBySKU(item.sku)
                   loc == [local EXCEPT !.variant = variant]
               IN IF variant = <<>> THEN SyncAdvance(local)
                  ELSE IF priceNeedsUpdate(item, variant[1])
                    THEN /\ local' = loc
                         /\ pc' = "sync_update_price"
                         /\ UNCHANGED status
                  ELSE SyncAfterPrice(loc)

\* updateVariantPrice(variant.id, zohoPrice)
SyncUpdatePrice ==
  /\ handler = "sync" /\ pc = "sync_update_price"
  /\ UNCHANGED <<cfgVars, zohoVars, shop, handler, req, deliveries>>
  /\ \E o \in ShopifyOutcomes :
       /\ calls' = calls \o shopifyFetch("variant_update", o)
       /\ IF shopifyFetchThrows(o) THEN Reply(500, local) /\ UNCHANGED variants
          ELSE /\ variants' = updateVariantPrice(local.variant[1].id,
                                                 zohoPrice(local.items[local.i]))
               /\ SyncAfterPrice(local)

\* setInventoryLevel(variant.inventory_item_id, available)
SyncSetInventory ==
  /\ handler = "sync" /\ pc = "sync_set_inventory"
  /\ UNCHANGED <<cfgVars, zohoVars, shop, handler, req, deliveries>>
  /\ \E oShop \in ShopifyOutcomes, oLevels \in ShopifyOutcomes,
        oSet \in ShopifyOutcomes :
       LET r == setInventoryLevel(local.variant[1].inventory_item_id,
                                  local.available, oShop, oLevels, oSet)
       IN /\ calls' = calls \o r.calls
          /\ variants' = r.variants
          /\ IF r.threw THEN Reply(500, local) ELSE SyncAdvance(local)

\* Backend item of the sync catalogs: A at another rate.
ItemA12 == ZohoItem(1, SkuA, Num(12), Num(5))
\* Paged catalogs: two pages; one page without a page_context; an empty page
\* flagged as having more; a first page flagged as the last; an item the
\* storefronts may lack and one without a SKU ahead of another item.
SyncCatalogs ==
  { << Page(<<ItemA, ItemNoSku>>, "true"), Page(<<ItemB>>, "false") >>,
    << Page(<<ItemAOnHand, ItemAX>>, "absent") >>,
    << Page(<<ItemA12>>, "true"), Page(<<>>, "true"), Page(<<ItemB>>, "false") >>,
    << Page(<<ItemA>>, "false"), Page(<<ItemB>>, "false") >>,
    << Page(<<ItemB, ItemNoSku, ItemA>>, "false") >> }
\* All items of the pages, in listing order.
RECURSIVE Flatten(_)
Flatten(pages) ==
  IF pages = <<>> THEN <<>> ELSE Head(pages).items \o Flatten(Tail(pages))
VarAPlain == Variant(1, SkuA, NumStr(10), << Level(1, Num(5)) >>)
VarB == Variant(3, SkuB, Fixed2Str(12), << Level(1, Num(7)) >>)
SyncStorefronts == Storefronts \cup { <<VarAPlain, VarB>> }

InitSync ==
  /\ IS_DEVELOPMENT = FALSE
  /\ SHOPIFY_SECRET = TheSecret
  /\ SECRET = TheSecret
  /\ ZOHO_ENV = ZohoConfigured
  /\ zohoPages \in SyncCatalogs
  /\ zohoItems = Flatten(zohoPages)
  /\ zohoContacts = <<>>
  /\ zohoSalesOrders = <<>>
  /\ variants \in SyncStorefronts
  /\ \E setup \in LocationSetups :
       /\ shop = setup[1]
       /\ FALLBACK_LOCATION_ID = setup[2]
  /\ handler = "sync"
  /\ req = NoRequest
  /\ pc = "idle"
  /\ status = 0
  /\ calls = <<>>
  /\ local = InitLocal
  /\ deliveries = 0

NextSync ==
  \/ SyncRun
  \/ SyncListPage
  \/ SyncFindVariant
  \/ SyncUpdatePrice
  \/ SyncSetInventory

SpecSync == InitSync /\ [][NextSync]_vars

\* ------------------------------------------- backend webhook: properties
\* The signature header carries the base64 or the hexadecimal HMAC-SHA256 of
\* the raw body under the configured secret.
SignatureVerifies(request) ==
  /\ Truthy(SECRET)
  /\ request.signature.enc \in {"base64", "base64ws", "hex", "HEX"}
  /\ request.signature.mac = Hmac(SECRET, zohoRawBody(request))
\* One of the shared-secret headers equals the secret; the Authorization
\* header counts with or without its Bearer prefix.
SharedSecretMatches(request) ==
  /\ Truthy(SECRET)
  /\ \/ request.xWebhookSecret = SECRET
     \/ request.xZohoWebhookSecret = SECRET
     \/ request.authorization = SECRET
     \/ request.authorization = <<"Bearer ">> \o SECRET

\* C1: a backend webhook request whose signature does not verify and whose
\* shared-secret headers do not equal the secret is answered 401, and no
\* vendor call is ever made for it.
C1_UnauthorizedRejected ==
  (Serving("zoho") /\ ~SignatureVerifies(req) /\ ~SharedSecretMatches(req))
    => (status = 401 /\ pc = "done" /\ calls = <<>>)
\* A request with a digest under another key and a wrong shared secret has
\* been rejected while a secret is configured.
C1_Witness ==
  /\ Serving("zoho") /\ Truthy(SECRET)
  /\ HeaderPresent(req.signature) /\ ~SignatureVerifies(req)
  /\ Truthy(req.xWebhookSecret) /\ ~SharedSecretMatches(req)
  /\ status = 401 /\ calls = <<>>

\* ----------------------------------------------------- sync: properties
\* The backend price and the storefront price are different amounts.
PriceDiffers(item, variant) ==
  /\ ~IsNullish(item.rate)
  /\ \/ item.rate.nan \/ variant.price.nan
     \/ item.rate.n # variant.price.n

\* C10: when the variant search of a sync run resolves the item's SKU, the
\* run goes on to a price update exactly when the backend price differs
\* from the variant's storefront price.
C10_PriceUpdateIffDiffers ==
  [][ ( /\ handler = "sync" /\ pc = "sync_find_variant"
        /\ calls'[Len(calls')].ok
        /\ findVariantBySKU(local.items[local.i].sku) # <<>> )
      => ( pc' = "sync_update_price"
             <=> PriceDiffers(local.items[local.i],
                              findVariantBySKU(local.items[local.i].sku)[1]) )
    ]_vars

\* ------------------------------------------------------------ all routes
\* One request to one of the three routes.
Init == InitOrder \/ InitZohoHook \/ InitSync
Next == NextOrder \/ NextZohoHook \/ NextSync
Spec == Init /\ [][Next]_vars

\* The request passed the authentication of its webhook route.
Authenticated ==
  \/ Serving("order") /\ hmacValid(req)
  \/ Serving("zoho") /\ Truthy(SECRET) /\ authorized(req)
\* The call is the flat payload's variant search.
FlatSearch(call) == ~local.body.has_adjustment /\ call.op = "variants_search"
\* An exception reached the catch of the webhook route: the body did not
\* parse, a backend call of the order push failed, or the flat payload's
\* variant search failed.
ExceptionReachedCatch ==
  \/ ParseThrows(req)
  \/ handler = "order" /\ SomeCallFailed
  \/ handler = "zoho" /\ \E k \in DOMAIN calls : ~calls[k].ok /\ FlatSearch(calls[k])

\* C5 as stated: an authenticated webhook request is always answered 200.
C5_AuthenticatedAlways200 ==
  (Authenticated /\ pc = "done") => status = 200
\* C5: an authenticated webhook request is answered 500 when an exception
\* reached the route's catch and 200 in every other case, unresolved SKUs
\* included; it is never answered 401.
C5_Authenticated200UnlessThrown ==
  (Authenticated /\ pc = "done")
    => status = (IF ExceptionReachedCatch THEN 500 ELSE 200)
\* An authenticated flat backend webhook whose SKU no variant resolves was
\* answered 200.
C5_Witness ==
  /\ Serving("zoho") /\ Authenticated /\ pc = "done" /\ status = 200
  /\ ~local.body.has_adjustment /\ Truthy(local.sku)
  /\ Len(calls) = 1 /\ calls[1].ok
  /\ findVariantBySKU(local.sku) = <<>>

\* The failure of the call is caught where it happens: the webhook's
\* try/catch around a price update, an inventory update or an adjustment
\* line.
CaughtByWebhook(call) == handler = "zoho" /\ ~FlatSearch(call)

\* C6 as stated: a failed vendor call is the last call of the request and
\* the request is answered 500.
C6_EveryFailureAborts ==
  \A k \in DOMAIN calls :
    ~calls[k].ok => (k = Len(calls) /\ pc = "done" /\ status = 500)
\* C6: a failed vendor call is the last call of the request and the request
\* is answered 500, with two exceptions: a failed shop lookup is caught and
\* followed by the inventory-levels lookup, and a failure inside the
\* backend webhook's try/catch blocks leaves the reply at 200.
C6_UncaughtFailureAborts ==
  \A k \in DOMAIN calls :
    ~calls[k].ok =>
      IF calls[k].op = "shop"
        THEN k < Len(calls) /\ calls[k + 1].op = "inventory_levels"
      ELSE IF CaughtByWebhook(calls[k])
        THEN pc = "done" => status = 200
      ELSE k = Len(calls) /\ pc = "done" /\ status = 500
\* A sync run whose shop lookup failed went on to the inventory-levels
\* lookup, which failed too, and was answered 500.
C6_Witness ==
  /\ Serving("sync") /\ pc = "done" /\ status = 500
  /\ Len(calls) >= 2
  /\ calls[Len(calls)].op = "inventory_levels" /\ ~calls[Len(calls)].ok
  /\ calls[Len(calls) - 1].op = "shop" /\ ~calls[Len(calls) - 1].ok

\* ------------------------------------- backend webhook handled twice
\* Adjustment payloads under a valid signature.
GenuineAdjustments ==
  { ZohoRequest(DigestBase64(Hmac(TheSecret, JsonText(pl))), Empty, Empty,
                Empty, pl, FALSE, JsonText(pl)) : pl \in AdjustmentPayloads }
ZohoWebhookGenuine ==
  /\ handler = "zoho" /\ pc = "idle"
  /\ \E request \in GenuineAdjustments : ServeZoho(request, InitLocal)
\* The sender delivers the same payload again after the handler replied.
ZohoRedeliver ==
  /\ handler = "zoho" /\ pc = "done"
  /\ deliveries < MaxDeliveries
  /\ ServeZoho(req, [InitLocal EXCEPT !.prev = [variants |-> variants,
                                                calls |-> calls,
                                                handled |-> TRUE]])
InitZohoRedelivery ==
  /\ InitZohoHook
  /\ SECRET = TheSecret
NextZohoRedelivery ==
  \/ ZohoWebhookGenuine
  \/ ZohoRedeliver
  \/ AdjGetItem
  \/ AdjFindVariant
  \/ AdjSetInventory
SpecZohoRedelivery == InitZohoRedelivery /\ [][NextZohoRedelivery]_vars

\* The absolute quantities an adjustment payload and the backend catalog name.
AbsoluteQuantities ==
  LET adj == local.body.inventory_adjustment
  IN { coerceNumber(adj.line_items[k].new_quantity) : k \in DOMAIN adj.line_items }
     \cup { coerceNumber(adj.new_quantity) }
     \cup UNION { { coerceNumber(zohoItems[k].available_stock),
                    coerceNumber(zohoItems[k].stock_on_hand),
                    coerceNumber(zohoItems[k].actual_available_stock) } :
                  k \in DOMAIN zohoItems }
\* The levels of the storefront as a set of (variant, location, quantity).
LevelsOf(vs) ==
  UNION { { <<vs[k].id, vs[k].levels[j].location_id, vs[k].levels[j].available>> :
              j \in DOMAIN vs[k].levels } : k \in DOMAIN vs }
SecondHandlingDone ==
  /\ Serving("zoho") /\ pc = "done" /\ local.prev.handled
  /\ local.body.has_adjustment

\* C11: when the same adjustment payload has been handled a second time with
\* the backend catalog unchanged and the vendor calls answering as in the
\* first handling, the storefront is as the first handling left it; whatever
\* the vendor calls answer, a level the second handling changed is one of the
\* absolute quantities of the payload or of the backend items, never the
\* earlier level plus a delta.
C11_SetIsIdempotent ==
  SecondHandlingDone =>
    /\ (calls = local.prev.calls => variants = local.prev.variants)
    /\ \A l \in LevelsOf(variants) \ LevelsOf(local.prev.variants) :
         l[3] \in AbsoluteQuantities
\* A level was set by both handlings of a payload.
C11_Witness ==
  /\ SecondHandlingDone /\ status = 200
  /\ calls = local.prev.calls
  /\ \E k \in DOMAIN calls : calls[k].op = "inventory_levels_set" /\ calls[k].ok
  /\ \E k \in DOMAIN local.updates : local.updates[k].kind = "updated"

\* ---------------------------------------------------- sync: pagination
\* The page ends the loop: it has no items, or has_more_page is not true.
PageTerminal(p) ==
  LET data == listZohoItemsPaged(p)
  IN Len(data.items) = 0 \/ data.has_more_page # "true"
\* Number of page fetches of the run so far; each begins with a token
\* exchange.
ListCalls ==
  Cardinality({k \in DOMAIN calls : calls[k].op = "items_list"
                                     /\ calls[k].svc = "zoho-accounts"})

\* C12: a sync run asks for pages 1, 2, 3, ... one fetch per page; it never
\* asks for a page after one that has no items or whose has_more_page is
\* false or absent, and a run that returns ok stopped at such a page.
C12_PaginationStops ==
  Serving("sync") =>
    /\ local.page >= 1
    /\ ListCalls = (IF pc = "sync_list_page" THEN local.page - 1 ELSE local.page)
    /\ \A p \in 1..(local.page - 1) : ~PageTerminal(p)
    /\ (pc = "done" /\ status = 200) => PageTerminal(local.page)
\* A run returned ok at a page that ends the loop although the backend has
\* pages after it.
C12_Witness ==
  /\ Serving("sync") /\ pc = "done" /\ status = 200
  /\ PageTerminal(local.page) /\ local.page < Len(zohoPages)

\* ---------------------------------------------------- sync: inventory
\* The item's stock fields in the order of preference.
StockFields(item) ==
  << item.available_stock, item.actual_available_stock, item.stock_on_hand >>
\* The first of the stock fields that is a number, Undefined when none is.
FirstNumericStock(item) ==
  LET fields == StockFields(item)
      k == FirstIndex({j \in DOMAIN fields : fields[j].t = "number"})
  IN IF k = 0 THEN Undefined ELSE fields[k]
\* This step of a sync run ends the price phase of an item resolved to a
\* variant: a successful variant search that needs no price update, or a
\* successful price update.
PricePhaseEnds ==
  /\ handler = "sync"
  /\ pc \in {"sync_find_variant", "sync_update_price"}
  /\ calls'[Len(calls')].ok
  /\ \/ /\ pc = "sync_find_variant"
        /\ findVariantBySKU(local.items[local.i].sku) # <<>>
        /\ pc' # "sync_update_price"
     \/ pc = "sync_update_price"

\* C13: for a backend item resolved to a variant the sync run goes on to set
\* the inventory level exactly when one of available_stock,
\* actual_available_stock, stock_on_hand is a number, and the level it sets
\* is the first of them that is a number.
C13_FirstNumericStockIsSet ==
  [][ PricePhaseEnds =>
        /\ pc' = "sync_set_inventory"
              <=> FirstNumericStock(local.items[local.i]).t = "number"
        /\ pc' = "sync_set_inventory"
              => local'.available = FirstNumericStock(local.items[local.i])
    ]_vars

\* ------------------------------------------------- sync: skipped items
\* The item the sync run is at.
SyncItem == local.items[local.i]
\* The run is about to issue a storefront write for its current item.
SyncWritePending == pc \in {"sync_update_price", "sync_set_inventory"}
SyncWriteOps == {"variant_update", "inventory_levels_set"}

\* C14: a sync run issues storefront writes only for an item that has a SKU
\* and that the variant search resolved; a successful search that finds no
\* variant changes nothing on the storefront, adds no call but the search
\* and does not end the run in an error; and the items the run passes over
\* on its way to the next item are exactly those without a SKU.
C14_SkippedItemsCauseNoWrite ==
  [][ (handler = "sync" /\ pc \notin {"idle", "done"}) =>
        /\ SyncWritePending =>
             /\ Truthy(SyncItem.sku)
             /\ findVariantBySKU(SyncItem.sku) # <<>>
        /\ ( /\ pc = "sync_find_variant"
             /\ calls'[Len(calls')].ok
             /\ findVariantBySKU(SyncItem.sku) = <<>> ) =>
             /\ variants' = variants
             /\ Len(calls') = Len(calls) + 1
             /\ status' \in {0, 200}
        /\ (pc' = "sync_find_variant" /\ local'.page = local.page) =>
             /\ Truthy(local'.items[local'.i].sku)
             /\ \A j \in (local.i + 1)..(local'.i - 1) :
                  ~Truthy(local'.items[j].sku)
    ]_vars
\* The run is at the third item of a page after a first item no variant
\* resolves and a second one without a SKU, and has written nothing.
C14_Witness ==
  /\ Serving("sync") /\ pc = "sync_find_variant" /\ local.i = 3
  /\ Truthy(local.items[1].sku) /\ findVariantBySKU(local.items[1].sku) = <<>>
  /\ ~Truthy(local.items[2].sku)
  /\ \A k \in DOMAIN calls : calls[k].ok /\ calls[k].op \notin SyncWriteOps

\* ------------------------------------------------------ sync: failures
\* The failed call is the last call, made by a step that ended the run with
\* 500 (the error was re-thrown to the route) and left the storefront as it
\* was.
AbortsRun(k) ==
  /\ k = Len(calls')
  /\ pc' = "done" /\ status' = 500
  /\ variants' = variants
\* The failed call is the shop lookup of an inventory set, followed by the
\* inventory-levels lookup.
CaughtShopLookup(k) ==
  /\ calls'[k].op = "shop"
  /\ k < Len(calls') /\ calls'[k + 1].op = "inventory_levels"

VarA2 == Variant(4, SkuA, Fixed2Str(12), <<>>)
ItemA2 == ZohoItem(4, SkuA, Num(12), Num(7))
LookupVariants == {VarA, VarA2, VarAX, VarB}
LookupItems == {ItemA, ItemA2, ItemAX, ItemB}
LookupSkus == {SkuA, SkuAX, SkuB}

\* findVariantBySKU(sku) called on its own.
ResolveVariant ==
  /\ handler = "find_variant" /\ pc = "idle"
  /\ UNCHANGED <<cfgVars, zohoVars, shopVars, handler, req>>
  /\ deliveries' = deliveries + 1
  /\ \E o \in ShopifyOutcomes :
       /\ calls' = shopifyFetch("variants_search", o)
       /\ IF shopifyFetchThrows(o) THEN Reply(500, local)
          ELSE Reply(200, [local EXCEPT !.variant = findVariantBySKU(local.sku)])
\* findZohoItemBySKU(sku) called on its own.
ResolveItem ==
  /\ handler = "find_item" /\ pc = "idle"
  /\ UNCHANGED <<cfgVars, zohoVars, shopVars, handler, req>>
  /\ deliveries' = deliveries + 1
  /\ \E o \in ZohoOutcomes :
       /\ calls' = zohoFetch("items_search", o)
       /\ IF zohoFetchThrows(o) THEN Reply(500, local)
          ELSE Reply(200, [local EXCEPT !.item = findZohoItemBySKU(local.sku)])

InitResolve ==
  /\ IS_DEVELOPMENT = FALSE
  /\ SHOPIFY_SECRET = TheSecret
  /\ SECRET = TheSecret
  /\ ZOHO_ENV = ZohoConfigured
  /\ handler \in {"find_variant", "find_item"}
  /\ IF handler = "find_variant"
       THEN variants \in SeqUpTo(LookupVariants, MaxResults) /\ zohoItems = <<>>
       ELSE zohoItems \in SeqUpTo(LookupItems, MaxResults) /\ variants = <<>>
  /\ zohoPages = <<>>
  /\ zohoContacts = <<>>
  /\ zohoSalesOrders = <<>>
  /\ shop = [primary_location_id |-> 1]
  /\ FALLBACK_LOCATION_ID = Empty
  /\ req = NoRequest
  /\ pc = "idle"
  /\ status = 0
  /\ calls = <<>>
  /\ \E sku \in LookupSkus : local = [InitLocal EXCEPT !.sku = sku]
  /\ deliveries = 0
NextResolve == ResolveVariant \/ ResolveItem
SpecResolve == InitResolve /\ [][NextResolve]_vars

\* The positions of the search result whose SKU is the one asked for.
ExactVariants(sku) ==
  {j \in DOMAIN ShopifySearch(sku) : ShopifySearch(sku)[j].sku = sku}
ExactItems(sku) == {j \in DOMAIN ZohoSearch(sku) : ZohoSearch(sku)[j].sku = sku}
Resolved(route) == handler = route /\ pc = "done" /\ status = 200

\* C16: findVariantBySKU returns null exactly when the search result is
\* empty; otherwise it returns the earliest variant of the result whose SKU
\* is the requested one, and the head of the result when no SKU is.
C16_VariantExactElseFirst ==
  Resolved("find_variant") =>
    LET found == ShopifySearch(local.sku)
        exact == ExactVariants(local.sku)
    IN /\ (local.variant = <<>>) <=> (found = <<>>)
       /\ (exact # {}) =>
            \E j \in exact : /\ local.variant = << found[j] >>
                              /\ \A i \in exact : j <= i
       /\ (exact = {} /\ found # <<>>) => local.variant = << found[1] >>
\* A lookup returned a variant with the requested SKU from a search result
\* that holds two of them behind a head with another SKU.
C16_Witness ==
  /\ Resolved("find_variant")
  /\ local.variant # <<>>
  /\ local.variant[1].sku = local.sku
  /\ ShopifySearch(local.sku)[1].sku # local.sku
  /\ Cardinality(ExactVariants(local.sku)) = 2

\* C17: findZohoItemBySKU returns the earliest item of the search result
\* whose SKU is the requested one and null when no item of the result has
\* that SKU, however many items the result holds.
C17_ItemExactElseNull ==
  Resolved("find_item") =>
    LET items == ZohoSearch(local.sku)
        exact == ExactItems(local.sku)
    IN /\ (local.item = <<>>) <=> (exact = {})
       /\ (local.item # <<>>) =>
            /\ local.item[1].sku = local.sku
            /\ \E j \in exact : /\ local.item = << items[j] >>
                              /\ \A i \in exact : j <= i
\* A lookup returned null although the search result holds items.
C17_Witness ==
  /\ Resolved("find_item")
  /\ Len(ZohoSearch(local.sku)) >= 2 /\ ExactItems(local.sku) = {}
  /\ local.item = <<>>

\* ------------------------------------------------ absent webhook secret
\* The webhook route that serves the request has no shared secret.
SecretAbsent ==
  \/ Serving("zoho") /\ ~Truthy(SECRET)
  \/ Serving("order") /\ ~Truthy(SHOPIFY_SECRET)

\* C18, for the webhook secrets: a webhook handler whose shared secret is
\* absent answers 500 (a failure of configuration), not 401 and not 200.
C18_AbsentSecretAnswers500 ==
  (SecretAbsent /\ pc = "done") => status = 500

\* --------------------------------------- backend webhook: quantities
\* The value is a finite number: a number that is not NaN, or the text of
\* one; the empty string is no number, though Number("") is 0.
ReadsAsNumber(v) == ~IsNullish(v) /\ ~v.nan /\ v.form # "empty"
AsNumber(v) == Num(v.n)
\* The absolute fields of a flat payload in the order of preference.
AbsoluteFields(body) ==
  << body.available_stock, body.stock_on_hand, body.actual_available_stock,
     body.quantity_available, body.item.available_stock,
     body.item.stock_on_hand, body.item.actual_available_stock >>
\* The absolute quantity of a flat payload, Undefined when it has none.
FlatQuantity(body) ==
  LET fields == AbsoluteFields(body)
      hits == {j \in DOMAIN fields : ReadsAsNumber(fields[j])}
  IN IF hits # {}
       THEN AsNumber(fields[CHOOSE j \in hits : \A i \in hits : j <= i])
     ELSE IF ReadsAsNumber(body.quantity) THEN AsNumber(body.quantity)
     ELSE Undefined
\* The backend item's current stock: its first stock field that is there.
CurrentStock(item) ==
  IF ~IsNullish(item.available_stock) THEN item.available_stock
  ELSE IF ~IsNullish(item.stock_on_hand) THEN item.stock_on_hand
  ELSE item.actual_available_stock
\* The absolute quantity of an adjustment line, Undefined when it has none.
LineQuantity(li, adj, item) ==
  IF ReadsAsNumber(li.new_quantity) THEN AsNumber(li.new_quantity)
  ELSE IF ReadsAsNumber(adj.new_quantity) THEN AsNumber(adj.new_quantity)
  ELSE IF ReadsAsNumber(CurrentStock(item)) THEN AsNumber(CurrentStock(item))
  ELSE Undefined
\* The variant has a level of that quantity.
HasLevel(variantId, quantity) ==
  \E k \in DOMAIN variants :
    /\ variants[k].id = variantId
    /\ \E j \in DOMAIN variants[k].levels :
         variants[k].levels[j].available = quantity

\* C19: the backend webhook sets the level of a flat payload to the first of
\* its absolute fields that reads as a finite number and only then to
\* quantity, and the level of an adjustment line to the line's new_quantity,
\* else the adjustment's, else the backend item's current stock; it makes
\* no inventory call when there is no such quantity, and an inventory update
\* it reports for a flat payload left the variant at that quantity.
C19_AbsoluteQuantityPreferred ==
  Serving("zoho") =>
    /\ pc = "flat_set_inventory" =>
         /\ local.available.t = "number"
         /\ local.available = FlatQuantity(local.body)
    /\ pc = "adj_set_inventory" =>
         /\ local.available.t = "number"
         /\ local.available =
              LineQuantity(AdjLines[local.i], local.body.inventory_adjustment,
                           local.item[1])
    /\ (pc = "done" /\ status = 200 /\ ~local.body.has_adjustment
          /\ local.variant # <<>>) =>
         IF FlatQuantity(local.body).t = "number"
           THEN /\ local.results.inventoryUpdated # "unset"
                /\ local.results.inventoryUpdated = "true"
                     => HasLevel(local.variant[1].id, FlatQuantity(local.body))
           ELSE local.results.inventoryUpdated = "unset"

\* --------------------------------------- backend webhook: adjustment batch
\* Number of item lookups the handling has started.
ItemLookups ==
  Cardinality({k \in DOMAIN calls : calls[k].op = "items_get"
                                     /\ calls[k].svc = "zoho-accounts"})
AdjustmentDone ==
  /\ Serving("zoho") /\ pc = "done" /\ status # 401
  /\ local.body.has_adjustment

\* C20: an authorized adjustment batch is answered 200 with one entry per
\* line, in line order: the entry of a line without item_id is a skip, any
\* other line had its backend item looked up and its entry is that line's or
\* an error, whatever happened to the lines before it.
C20_OneEntryPerLine ==
  AdjustmentDone =>
    /\ status = 200
    /\ Len(local.updates) = Len(AdjLines)
    /\ ItemLookups = Cardinality({k \in DOMAIN AdjLines : AdjLines[k].item_id # 0})
    /\ \A k \in DOMAIN AdjLines :
         IF AdjLines[k].item_id = 0
           THEN local.updates[k] = Update(0, "skipped", "No item_id")
           ELSE \/ local.updates[k].kind = "error"
                \/ local.updates[k].item_id = AdjLines[k].item_id
\* A batch whose first line failed with a vendor error had its second line
\* applied.
C20_Witness ==
  /\ AdjustmentDone /\ Len(AdjLines) = 2
  /\ local.updates[1].kind = "error"
  /\ local.updates[2].kind = "updated"

\* ------------------------------------------------ backend client: zohoFetch
\* The requests a caller makes: a page of the catalog, a contact creation.
FetchOps == {"items_list", "contacts_create"}
\* Every combination of set and unset ZOHO_* values.
ZohoEnvs ==
  [ ZOHO_BASE_URL : {Empty, <<"b">>}, ZOHO_ACCOUNTS_URL : {Empty, <<"a">>},
    ZOHO_CLIENT_ID : {Empty, <<"c">>}, ZOHO_CLIENT_SECRET : {Empty, <<"k">>},
    ZOHO_REFRESH_TOKEN : {Empty, <<"r">>}, ZOHO_ORG_ID : {Empty, <<"o">>} ]
\* What the caller saw of one zohoFetch(op).
Fetch(op, threw) == [op |-> op, threw |-> threw]

\* zohoFetch(path) called on its own; a caller makes several such calls, one
\* after the other, whether the earlier ones threw or not.
ZohoFetchCall ==
  /\ handler = "zoho_fetch" /\ pc \in {"idle", "fetched"}
  /\ Len(local.fetches) < MaxFetches
  /\ UNCHANGED <<cfgVars, zohoVars, shopVars, handler, req, status>>
  /\ deliveries' = deliveries + 1
  /\ pc' = "fetched"
  /\ \E op \in FetchOps, o \in ZohoOutcomes :
       /\ calls' = calls \o zohoFetch(op, o)
       /\ local' = [local EXCEPT
                      !.fetches = Append(@, Fetch(op, zohoFetchThrows(o)))]

InitZohoFetch ==
  /\ IS_DEVELOPMENT = FALSE
  /\ SHOPIFY_SECRET = TheSecret
  /\ SECRET = TheSecret
  /\ ZOHO_ENV \in ZohoEnvs
  /\ zohoItems = <<>>
  /\ zohoPages = <<>>
  /\ zohoContacts = <<>>
  /\ zohoSalesOrders = <<>>
  /\ variants = <<>>
  /\ shop = [primary_location_id |-> 1]
  /\ FALLBACK_LOCATION_ID = Empty
  /\ handler = "zoho_fetch"
  /\ req = NoRequest
  /\ pc = "idle"
  /\ status = 0
  /\ calls = <<>>
  /\ local = InitLocal
  /\ deliveries = 0
NextZohoFetch == ZohoFetchCall
SpecZohoFetch == InitZohoFetch /\ [][NextZohoFetch]_vars

\* Token exchanges and API requests sent so far.
TokenExchanges == {k \in DOMAIN calls : calls[k].svc = "zoho-accounts"}
ApiRequests == {k \in DOMAIN calls : calls[k].svc = "zoho"}
\* Each API request sent follows directly the successful exchange made for
\* it, and a failed exchange is followed by no API request.
ExchangeBeforeRequest ==
  /\ \A k \in ApiRequests :
       k > 1 /\ calls[k - 1] = Call("zoho-accounts", calls[k].op, TRUE)
  /\ \A k \in TokenExchanges :
       (~calls[k].ok /\ k < Len(calls)) => calls[k + 1].svc = "zoho-accounts"

\* C21 as stated: in any run of zohoFetch calls there are as many token
\* exchanges as backend requests attempted, each exchange precedes its
\* request, no token serves two requests, and a failed exchange means the
\* request is not sent.
C21_ExchangePerAttempt ==
  handler = "zoho_fetch" =>
    /\ Cardinality(TokenExchanges) = Len(local.fetches)
    /\ ExchangeBeforeRequest
\* C21 amended: the same, for requests attempted while the four values of
\* the token exchange are set; a request attempted while one of them is not
\* set makes no exchange and sends nothing.
C21_ExchangePerConfiguredAttempt ==
  handler = "zoho_fetch" =>
    /\ ~tokenEnvThrows => Cardinality(TokenExchanges) = Len(local.fetches)
    /\ tokenEnvThrows => calls = <<>>
    /\ ExchangeBeforeRequest
\* Three requests in a fully configured environment: the first exchange
\* failed, the other two requests were sent after an exchange of their own.
C21_Witness ==
  /\ handler = "zoho_fetch" /\ ZOHO_ENV = ZohoConfigured
  /\ Len(local.fetches) = 3
  /\ Cardinality(TokenExchanges) = 3 /\ Cardinality(ApiRequests) = 2
  /\ ~calls[1].ok

\* C27: a zohoFetch made while ZOHO_BASE_URL or ZOHO_ORG_ID is not set issues
\* no network request: no token exchange and no API request.
C27_AbsentConfigSendsNothing ==
  (handler = "zoho_fetch" /\ apiEnvThrows) => calls = <<>>

\* ------------------------------------------- backend webhook: items payload
\* The handling of an authorized, parsed items payload has replied.
FlatDone ==
  /\ Serving("zoho") /\ pc = "done" /\ status # 401
  /\ ~ParseThrows(req) /\ ~local.body.has_adjustment
\* Storefront writes among the vendor calls of the handling.
WriteOps == {"variant_update", "inventory_levels_set"}
Writes == {k \in DOMAIN calls : calls[k].op \in WriteOps}
PriceCalls == {k \in DOMAIN calls : calls[k].op = "variant_update"}
\* setInventoryLevel starts with the shop lookup.
InventoryAttempts == {k \in DOMAIN calls : calls[k].op = "shop"}
\* The variant search answered and found a variant.
FlatResolved ==
  /\ Truthy(pickSKU(local.body))
  /\ calls # <<>> /\ calls[1].ok
  /\ local.variant # <<>>
\* The price the storefront holds for the variant the handling resolved.
FlatVariantPrice ==
  LET k == FirstIndex({j \in DOMAIN variants : variants[j].id = local.variant[1].id})
  IN variants[k].price

\* C22: in the items path the price update and the inventory set are
\* independent.  A payload without SKU, or whose SKU finds no variant, is
\* answered 200 with skipped and causes no storefront write.  Once the
\* variant is found the reply is 200; the price update is attempted exactly
\* when a price was picked and priceUpdated tells how it went; the inventory
\* set is attempted exactly when a numeric quantity was picked, also after a
\* failed price update, and inventoryUpdated tells how it went; a price that
\* was updated stays on the storefront when the inventory set fails.
C22_PriceAndInventoryIndependent ==
  FlatDone =>
    /\ ~Truthy(pickSKU(local.body)) =>
         status = 200 /\ local.results.skipped /\ calls = <<>>
    /\ (Truthy(pickSKU(local.body)) /\ calls[1].ok /\ local.variant = <<>>) =>
         status = 200 /\ local.results.skipped /\ Writes = {}
    /\ FlatResolved =>
         /\ status = 200 /\ ~local.results.skipped
         /\ Cardinality(PriceCalls) = IF IsNullish(local.price) THEN 0 ELSE 1
         /\ Cardinality(InventoryAttempts) =
              IF local.available.t = "number" THEN 1 ELSE 0
         /\ local.results.priceUpdated =
              IF PriceCalls = {} THEN "unset"
              ELSE IF \A k \in PriceCalls : calls[k].ok THEN "true" ELSE "false"
         /\ local.results.inventoryUpdated =
              IF InventoryAttempts = {} THEN "unset"
              ELSE IF calls[Len(calls)] = Call("shopify", "inventory_levels_set", TRUE)
                THEN "true" ELSE "false"
         /\ local.results.priceUpdated = "true" =>
              FlatVariantPrice = String(local.price)
\* A failed price update was followed by an inventory set that succeeded.
C22_Witness ==
  /\ FlatDone /\ FlatResolved
  /\ local.results.priceUpdated = "false"
  /\ local.results.inventoryUpdated = "true"
\* A price update that succeeded was followed by an inventory set that failed.
C22_WitnessPriceKept ==
  /\ FlatDone /\ FlatResolved
  /\ local.results.priceUpdated = "true"
  /\ local.results.inventoryUpdated = "false"

\* ------------------------------------------------ storefront write targets
\* The SKU that causes the write the handler is about to make: the SKU of
\* the payload or of the adjustment line's backend item (webhook), the SKU of
\* the current backend item (sync run).
CausingSku == IF handler = "sync" THEN SyncItem.sku ELSE local.sku
\* The handler is suspended at a storefront write.
WritePending ==
  pc \in { "flat_update_price", "flat_set_inventory", "adj_set_inventory",
           "sync_update_price", "sync_set_inventory" }

\* C23: every storefront write of the sync run and of the backend webhook
\* targets a variant whose SKU is the SKU of the item or payload that caused
\* it, and no variant with another SKU is modified.
C23_WritesTargetSameSku ==
  [][ (handler \in {"zoho", "sync"} /\ WritePending) =>
        /\ local.variant[1].sku = CausingSku
        /\ \A k \in DOMAIN variants :
             variants'[k] # variants[k] => variants[k].sku = CausingSku
    ]_vars

\* --------------------------------------- order push: nothing to push
\* An authorized, parsed order is being handled or has been handled.
OrderAccepted ==
  /\ Serving("order") /\ status # 401 /\ ~ParseThrows(req)
\* The order has no email, or none of its lines has a backend item.
NothingToPush == ~HasEmail(ParsedOrder(req)) \/ ZeroLinesResolve
\* Calls of the push that look up or change contacts and sales orders.
ContactOrSalesOrderCalls ==
  { k \in DOMAIN calls :
      calls[k].op \in {"contacts_search", "contacts_create", "salesorders_create"} }

\* C24: for an order without email, or none of whose lines has a backend
\* item, the push searches and creates no contact and posts no sales order
\* (its only backend calls are the item searches of its lines, none at all
\* without an email); when these searches are answered it returns without a
\* sales order and the handler replies 200.
C24_NothingToPushNoSideEffect ==
  (OrderAccepted /\ NothingToPush) =>
    /\ ContactOrSalesOrderCalls = {}
    /\ zohoSalesOrders = <<>>
    /\ \A k \in DOMAIN calls : calls[k].op = "items_search"
    /\ ~HasEmail(ParsedOrder(req)) => (calls = <<>> /\ ~PushInvoked)
    /\ (pc = "done" /\ ~SomeCallFailed) =>
         /\ status = 200
         /\ local.push = IF HasEmail(ParsedOrder(req)) THEN "void" ELSE "none"
\* An order with an email and two lines with a SKU, neither of which the
\* backend holds: two item searches, then 200.
C24_Witness ==
  /\ OrderAccepted /\ pc = "done" /\ status = 200
  /\ HasEmail(ParsedOrder(req)) /\ ZeroLinesResolve
  /\ Len(ParsedOrder(req).lines) = 2
  /\ Cardinality({k \in DOMAIN calls : calls[k].svc = "zoho"}) = 2

\* ------------------------------------------------ concurrent invocations
\* The hosting runtime runs invocations side by side; they share nothing but
\* the two vendor systems.  In the specifications of this part local holds
\* one record per invocation: what it is (kind), the await it is suspended at
\* (at), how it ended (threw) and its local variables (loc); pc is "done"
\* once every invocation has ended.
Callers == 1..MaxCallers
Invocation(kind, at, threw, loc) ==
  [kind |-> kind, at |-> at, threw |-> threw, loc |-> loc]
\* The invocations after invocation p moved to the await at with locals loc.
Resume(p, at, loc) == [local EXCEPT ![p].at = at, ![p].loc = loc]
Return(p, loc) == [local EXCEPT ![p].at = "done", ![p].loc = loc]
Throw(p) == [local EXCEPT ![p].at = "done", ![p].threw = TRUE]
AllDone(invocations) == \A p \in Callers : invocations[p].at = "done"
Step(invocations) ==
  /\ local' = invocations
  /\ pc' = IF AllDone(invocations) THEN "done" ELSE "running"

\* getOrCreateZohoContactByEmail(email) of caller p, up to the answer of the
\* contact search.
ContactLookup(p) ==
  /\ handler = "contacts" /\ local[p].at = "idle"
  /\ UNCHANGED <<cfgVars, zohoVars, shopVars, handler, req, status>>
  /\ deliveries' = deliveries + 1
  /\ IF ~Truthy(local[p].loc.email) THEN Step(Throw(p)) /\ UNCHANGED calls
     ELSE \E o \in ZohoOutcomes :
       /\ calls' = calls \o zohoFetch("contacts_search", o)
       /\ IF zohoFetchThrows(o) THEN Step(Throw(p))
          ELSE LET contacts == ContactSearchResult(local[p].loc.email)
               IN IF Len(contacts) > 0
                    THEN Step(Return(p, [local[p].loc EXCEPT
                                           !.contact = contacts[1].contact_id]))
                  ELSE Step(Resume(p, "contact_create", local[p].loc))
\* getOrCreateZohoContactByEmail of caller p: POST contacts.
ContactPost(p) ==
  /\ handler = "contacts" /\ local[p].at = "contact_create"
  /\ UNCHANGED <<cfgVars, zohoItems, zohoPages, zohoSalesOrders, shopVars, handler,
                 req, status, deliveries>>
  /\ \E o \in ZohoOutcomes :
       /\ calls' = calls \o zohoFetch("contacts_create", o)
       /\ IF zohoFetchThrows(o) THEN Step(Throw(p)) /\ UNCHANGED zohoContacts
          ELSE LET id == Len(zohoContacts) + 1
               IN /\ zohoContacts' =
                       Append(zohoContacts,
                              [contact_id |-> id, email |-> local[p].loc.email])
                  /\ Step(Return(p, [local[p].loc EXCEPT !.contact = id]))

InitContacts ==
  /\ IS_DEVELOPMENT = FALSE
  /\ SHOPIFY_SECRET = TheSecret
  /\ SECRET = TheSecret
  /\ ZOHO_ENV = ZohoConfigured
  /\ zohoItems = <<>>
  /\ zohoPages = <<>>
  /\ zohoContacts \in {<<>>, <<Contact1>>}
  /\ zohoSalesOrders = <<>>
  /\ variants = <<>>
  /\ shop = [primary_location_id |-> 1]
  /\ FALLBACK_LOCATION_ID = Empty
  /\ handler = "contacts"
  /\ req = NoRequest
  /\ pc = "idle"
  /\ status = 0
  /\ calls = <<>>
  /\ local \in [ Callers ->
                   { Invocation("contact", "idle", FALSE,
                                [InitLocal EXCEPT !.email = e]) :
                       e \in {Email1, Email2, Empty} } ]
  /\ deliveries = 0
NextContacts == \E p \in Callers : ContactLookup(p) \/ ContactPost(p)
SpecContacts == InitContacts /\ [][NextContacts]_vars

\* Contacts the backend holds for an email.
ContactsFor(email) == {k \in DOMAIN zohoContacts : zohoContacts[k].email = email}
\* Caller p ends its contact search with an answer in this step.
SearchAnswered(p) ==
  /\ local[p].at = "idle" /\ local'[p].at # "idle"
  /\ Truthy(local[p].loc.email)
  /\ ~local'[p].threw

\* Caller p ends its contact creation with an answer in this step.
CreateAnswered(p) ==
  /\ local[p].at = "contact_create" /\ local'[p].at = "done"
  /\ ~local'[p].threw
\* What one caller does: a search that finds contacts for the email uses the
\* first of them and creates none; one that finds none is followed by the
\* creation of exactly one contact for the email.
GetOrCreateSteps ==
  \A p \in Callers :
    /\ (SearchAnswered(p) /\ ContactsFor(local[p].loc.email) # {}) =>
         /\ local'[p].at = "done"
         /\ local'[p].loc.contact =
              ContactSearchResult(local[p].loc.email)[1].contact_id
         /\ zohoContacts' = zohoContacts
    /\ (SearchAnswered(p) /\ ContactsFor(local[p].loc.email) = {}) =>
         /\ local'[p].at = "contact_create"
         /\ zohoContacts' = zohoContacts
    /\ CreateAnswered(p) =>
         zohoContacts' =
           Append(zohoContacts, [ contact_id |-> local'[p].loc.contact,
                                  email |-> local[p].loc.email ])
\* No email has two contacts after the step.
AtMostOneContactPerEmail ==
  \A e \in {Email1, Email2} :
    Cardinality({k \in DOMAIN zohoContacts' : zohoContacts'[k].email = e}) <= 1

\* C26: contact resolution is get-or-create for each caller, and callers
\* that run at the same time with the same unknown email create at most one
\* contact for it: the backend never holds two contacts for one email.
C26_GetOrCreateOnce ==
  [][GetOrCreateSteps /\ AtMostOneContactPerEmail]_vars
\* The part of C26 about one caller, which holds in every interleaving.
C26_GetOrCreatePerCaller == [][GetOrCreateSteps]_vars

\* ------------------------------- concurrent sync runs and backend webhooks
\* Stock values the backend item takes.
StockValues == {5, 6, 7}
\* The adjustment payload the backend sends for item 1; newQuantity is the
\* line's new_quantity, which the backend may leave out.
AdjustmentFor(newQuantity) ==
  [NoPayload EXCEPT
     !.has_adjustment = TRUE,
     !.inventory_adjustment =
        [ inventory_adjustment_id |-> 7, new_quantity |-> Undefined,
          line_items |-> << AdjLine(1, newQuantity, Undefined) >> ]]

\* The trigger of the sync route reaches invocation p: run() up to the first
\* page request.
SyncStarts(p) ==
  /\ handler = "stock" /\ local[p].kind = "sync" /\ local[p].at = "idle"
  /\ UNCHANGED <<cfgVars, zohoVars, shopVars, handler, req, status, calls>>
  /\ deliveries' = deliveries + 1
  /\ Step(Resume(p, "sync_list_page", [local[p].loc EXCEPT !.page = 1]))
\* The backend changes the stock of item 1 and sends the adjustment webhook,
\* which invocation p handles up to its first await.
AdjustmentArrives(p) ==
  /\ handler = "stock" /\ local[p].kind = "webhook" /\ local[p].at = "idle"
  /\ UNCHANGED <<cfgVars, zohoPages, zohoContacts, zohoSalesOrders, shopVars,
                 handler, req, status, calls>>
  /\ deliveries' = deliveries + 1
  /\ \E q \in StockValues \ {zohoItems[1].available_stock.n},
        carried \in BOOLEAN :
       /\ zohoItems' = [zohoItems EXCEPT ![1].available_stock = Num(q)]
       /\ Step(Resume(p, "adj_get_item",
                      [local[p].loc EXCEPT
                         !.i = 1,
                         !.body = AdjustmentFor(IF carried THEN Num(q)
                                                ELSE Undefined)]))
\* Sync run p: listZohoItemsPaged(page); the backend answers with the catalog
\* as it is now, on one page.
ListPageBy(p) ==
  /\ handler = "stock" /\ local[p].at = "sync_list_page"
  /\ UNCHANGED <<cfgVars, zohoVars, shopVars, handler, req, status, deliveries>>
  /\ \E o \in ZohoOutcomes :
       /\ calls' = calls \o zohoFetch("items_list", o)
       /\ IF zohoFetchThrows(o) THEN Step(Throw(p))
          ELSE LET items == IF local[p].loc.page = 1 THEN zohoItems ELSE <<>>
                   first == SyncNext(items, 1)
                   loc == [local[p].loc EXCEPT !.items = items, !.i = first]
               IN IF first > Len(items) THEN Step(Return(p, loc))
                  ELSE Step(Resume(p, "sync_find_variant", loc))
\* Webhook p: getZohoItemById(itemId) of the line; the backend answers with
\* the item as it is now.
GetItemBy(p) ==
  /\ handler = "stock" /\ local[p].at = "adj_get_item"
  /\ UNCHANGED <<cfgVars, zohoVars, shopVars, handler, req, status, deliveries>>
  /\ \E o \in ZohoOutcomes :
       LET li == local[p].loc.body.inventory_adjustment.line_items[local[p].loc.i]
           item == ZohoItemById(li.item_id)
       IN /\ calls' = calls \o zohoFetch("items_get", o)
          /\ IF zohoFetchThrows(o) THEN Step(Throw(p))
             ELSE IF ~Truthy(item[1].sku) THEN Step(Return(p, local[p].loc))
             ELSE Step(Resume(p, "adj_find_variant",
                              [local[p].loc EXCEPT !.item = item,
                                                   !.sku = item[1].sku]))
\* findVariantBySKU(sku) of sync run or webhook p, and what it decides to
\* write next.
FindVariantBy(p) ==
  /\ handler = "stock"
  /\ local[p].at \in {"sync_find_variant", "adj_find_variant"}
  /\ UNCHANGED <<cfgVars, zohoVars, shopVars, handler, req, status, deliveries>>
  /\ \E o \in ShopifyOutcomes :
       /\ calls' = calls \o shopifyFetch("variants_search", o)
       /\ IF shopifyFetchThrows(o) THEN Step(Throw(p))
          ELSE IF local[p].kind = "sync"
            THEN LET item == local[p].loc.items[local[p].loc.i]
                     variant == findVariantBySKU(item.sku)
                     available == syncAvailable(item)
                     loc == [local[p].loc EXCEPT !.variant = variant,
                                                 !.available = available]
                 IN IF variant = <<>> THEN Step(Return(p, local[p].loc))
                    ELSE IF priceNeedsUpdate(item, variant[1])
                      THEN Step(Resume(p, "sync_update_price", loc))
                    ELSE IF available.t = "number"
                      THEN Step(Resume(p, "set_inventory", loc))
                    ELSE Step(Return(p, loc))
          ELSE LET adj == local[p].loc.body.inventory_adjustment
                   li == adj.line_items[local[p].loc.i]
                   variant == findVariantBySKU(local[p].loc.sku)
                   qty == newQty(li, adj, local[p].loc.item[1])
                   loc == [local[p].loc EXCEPT !.variant = variant,
                                               !.available = qty]
               IN IF variant = <<>> \/ qty.t # "number"
                    THEN Step(Return(p, local[p].loc))
                  ELSE Step(Resume(p, "set_inventory", loc))
\* Sync run p: updateVariantPrice(variant.id, zohoPrice).
UpdatePriceBy(p) ==
  /\ handler = "stock" /\ local[p].at = "sync_update_price"
  /\ UNCHANGED <<cfgVars, zohoVars, shop, handler, req, status, deliveries>>
  /\ \E o \in ShopifyOutcomes :
       /\ calls' = calls \o shopifyFetch("variant_update", o)
       /\ IF shopifyFetchThrows(o) THEN Step(Throw(p)) /\ UNCHANGED variants
          ELSE /\ variants' =
                    updateVariantPrice(local[p].loc.variant[1].id,
                                       zohoPrice(local[p].loc.items[local[p].loc.i]))
               /\ IF local[p].loc.available.t = "number"
                    THEN Step(Resume(p, "set_inventory", local[p].loc))
                  ELSE Step(Return(p, local[p].loc))
\* setInventoryLevel(variant.inventory_item_id, available) of sync run or
\* webhook p, with the quantity it computed before.
SetInventoryBy(p) ==
  /\ handler = "stock" /\ local[p].at = "set_inventory"
  /\ UNCHANGED <<cfgVars, zohoVars, shop, handler, req, status, deliveries>>
  /\ \E oShop \in ShopifyOutcomes, oLevels \in ShopifyOutcomes,
        oSet \in ShopifyOutcomes :
       LET r == setInventoryLevel(local[p].loc.variant[1].inventory_item_id,
                                  local[p].loc.available, oShop, oLevels, oSet)
       IN /\ calls' = calls \o r.calls
          /\ variants' = r.variants
          /\ IF r.threw THEN Step(Throw(p)) ELSE Step(Return(p, local[p].loc))

InitStock ==
  /\ IS_DEVELOPMENT = FALSE
  /\ SHOPIFY_SECRET = TheSecret
  /\ SECRET = TheSecret
  /\ ZOHO_ENV = ZohoConfigured
  /\ zohoItems = <<ItemA>>
  /\ zohoPages = <<>>
  /\ zohoContacts = <<>>
  /\ zohoSalesOrders = <<>>
  /\ variants = <<VarA>>
  /\ shop = [primary_location_id |-> 1]
  /\ FALLBACK_LOCATION_ID = Empty
  /\ handler = "stock"
  /\ req = NoRequest
  /\ pc = "idle"
  /\ status = 0
  /\ calls = <<>>
  /\ local \in [ Callers ->
                   { Invocation(kind, "idle", FALSE, InitLocal) :
                       kind \in {"sync", "webhook"} } ]
  /\ deliveries = 0
NextStock ==
  \E p \in Callers :
    \/ SyncStarts(p)
    \/ AdjustmentArrives(p)
    \/ ListPageBy(p)
    \/ GetItemBy(p)
    \/ FindVariantBy(p)
    \/ UpdatePriceBy(p)
    \/ SetInventoryBy(p)
SpecStock == InitStock /\ [][NextStock]_vars

\* The storefront level of variant 1 at the shop's primary location.
StorefrontLevel ==
  LET levels == variants[1].levels
      k == FirstIndex({j \in DOMAIN levels :
                         levels[j].location_id = shop.primary_location_id})
  IN levels[k].available
\* Every invocation has completed, none of them with an error.
AllCompleted ==
  /\ handler = "stock" /\ pc = "done"
  /\ \A p \in Callers : ~local[p].threw

\* C25: when sync runs and backend webhooks for one SKU have run at the
\* same time, in any interleaving of their vendor calls, and all have
\* completed, the storefront level of the SKU is the backend's latest stock.
C25_FinalLevelIsLatestStock ==
  AllCompleted => StorefrontLevel = zohoItems[1].available_stock
====
